---- MODULE Spec2Model ----
(***************************************************************************)
(* http-watchdog: the probe engine (HttpWatchdog), the report server       *)
(* thread (ReportServer) and the report request handler                    *)
(* (ReportingHTTPRequestHandler / ReportPageGenerator.generate_report).    *)
(*                                                                         *)
(* Three threads of control:                                               *)
(*   - the scheduler (main thread) executing HttpWatchdog.run_forever,     *)
(*     which drives the generator HttpWatchdog.probe;                      *)
(*   - the report server thread executing ReportServer._main;              *)
(*   - the request handler, run by the (single-threaded) TCPServer inside  *)
(*     the report server thread, one request at a time.                    *)
(*                                                                         *)
(* Sequences are 1-based here: slot i of the code is slot i + 1 below.     *)
(* A Python value that may be None is a sequence of at most one element:   *)
(* None is <<>> and the value x is Some(x) = <<x>>.  A record is used as   *)
(* it is (a record is never equal to None).                                *)
(***************************************************************************)
EXTENDS Integers, Sequences, FiniteSets, TLC

VARIABLES
    probe_interval,   \* HttpWatchdog._probe_interval (None while there is no watchdog)
    page_configs,     \* HttpWatchdog._page_configs
    probe_results,    \* HttpWatchdog._probe_results
    exception_queue,  \* the queue.Queue shared by ReportServer and run_forever
    pc,               \* where run_forever is
    i,                \* run_forever / probe: the page being processed (1-based)
    result,           \* the record probe() has yielded and run_forever has not yet stored
    fetched,          \* what _fetch_page met and which regexes probe() searched for that record (history)
    raised,           \* the exception that left run_forever, or None
    sweep,            \* history of the current sweep: GETs issued, slots written, records made
    published,        \* history: the slots that have been stored into at least once
    server,           \* where ReportServer._main is
    server_exc,       \* the exception that ended ReportServer._main, or None
    request,          \* the report request being handled
    main_pc,          \* where main() is
    settings,         \* the settings gathered by the SettingsManager, or None
    exit_status,      \* the exit status of the process, or None while it runs
    error_log,        \* the errors reported through logger.error
    call,             \* a call of one function on its own: its name and arguments
    ret               \* what that call returned or raised, or None before it ran

main_vars == << main_pc, settings, exit_status, error_log >>

pure_vars == << call, ret >>

program_vars == << probe_interval, page_configs, probe_results, exception_queue,
                   pc, i, result, fetched, raised, sweep, published, server,
                   server_exc, request, main_pc, settings, exit_status, error_log >>

vars == << probe_interval, page_configs, probe_results, exception_queue, pc, i,
           result, fetched, raised, sweep, published, server, server_exc, request,
           main_pc, settings, exit_status, error_log, call, ret >>

None == << >>
Some(x) == << x >>
Value(opt) == opt[1]

(***************************************************************************)
(* Bounds of the model.                                                    *)
(***************************************************************************)
MaxPages == 2
MaxFields == 3
MaxConfiguredPages == 2
MaxSweeps == 3

(***************************************************************************)
(* ProbeResult (probe_result.py) and the http.client status codes used.    *)
(***************************************************************************)
MATCH == 0
NO_MATCH == 1
HTTP_ERROR == 2
CONNECTION_ERROR == 3
NOT_PROBED_YET == 4

OK == 200
NOT_FOUND == 404

DEFAULT_PROBE_INTERVAL == 300

PublishableResults == {MATCH, NO_MATCH, HTTP_ERROR, CONNECTION_ERROR}

(***************************************************************************)
(* Inputs.                                                                 *)
(***************************************************************************)
\* Regular expressions are identified by their pattern text; a page content
\* is identified by the set of patterns that find a match in it.
Patterns == {"foo", "bar"}
Contents == SUBSET Patterns

\* The pattern lists given to the pages of a configuration, page by page.
PatternLists == << <<"foo", "bar">>, <<>>, <<"foo">> >>

InputPage(k) ==
    [url |-> k, patterns |-> PatternLists[((k - 1) % Len(PatternLists)) + 1]]

\* The page_configs argument of the constructor: 1 .. MaxPages pages.
InputPageConfigs == { [k \in 1..n |-> InputPage(k)] : n \in 1..MaxPages }

ProbeIntervals == {0, DEFAULT_PROBE_INTERVAL}

\* What a remote server answers: a status and its reason phrase.
Responses == { [status |-> Some(OK), reason |-> Some("OK")],
               [status |-> Some(NOT_FOUND), reason |-> Some("Not Found")] }

\* The exceptions a fetch can meet, with str(exception).
ExceptionText(type) ==
    CASE type = "OSError"               -> "timed out"
      [] type = "CharsetDetectionError" -> "Found multiple charset fields"
      [] OTHER                          -> "invalid literal"

\* The exceptions the report server thread can end with.
ServerExceptions == {"OSError(EADDRINUSE)", "PermissionError"}

\* Readings of the wall clock: time.time() and datetime.utcnow().
Times == {1, 2}
UtcNow == {2}

(***************************************************************************)
(* HttpWatchdog.__init__                                                   *)
(***************************************************************************)
\* re.compile(pattern): the compiled regex keeps its pattern text.
Compile(pattern) == pattern

\* Mutant: the regexes of a page are kept in reverse order.
CompilePageConfigs_Reversed(input) ==
    [k \in 1..Len(input) |->
        [url     |-> input[k].url,
         regexes |-> [j \in 1..Len(input[k].patterns) |->
                         Compile(input[k].patterns[Len(input[k].patterns) + 1 - j])]]]

\* The loop over page_configs: one dict per page, with its url and the
\* list of its patterns compiled.
CompilePageConfigs(input) ==
    [k \in 1..Len(input) |->
        [url     |-> input[k].url,
         regexes |-> [j \in 1..Len(input[k].patterns) |-> Compile(input[k].patterns[j])]]]

\* [None] * len(self._page_configs)
InitialProbeResults(configs) == [k \in 1..Len(configs) |-> None]

(***************************************************************************)
(* HttpWatchdog._fetch_page                                                *)
(*                                                                         *)
(* What the network does to one GET is the input `o`:                      *)
(*   o.exc      the exception met ("none" when the round trip completes);  *)
(*   o.stage    where it is met: "connect" (creating the connection,       *)
(*              before the request is timed), "request" (request() or      *)
(*              getresponse()), "body" (charset detection, read() or       *)
(*              decode() of a 200 response), "close" (connection.close()); *)
(*   o.response the status and reason received (stages after "request");   *)
(*   o.content  the decoded body of a 200 response (None otherwise);       *)
(*   o.t0, o.t1 the wall clock (time.time()) before the request and after  *)
(*              it: two different readings, the second one the larger, or  *)
(*              the smaller when the clock was set back in between.        *)
(***************************************************************************)
\* Mutant: CharsetDetectionError is declared as a subclass of ValueError.
IsSubclass_CharsetIsValueError(type, class) ==
    \/ type = class
    \/ type = "UnicodeDecodeError" /\ class = "ValueError"
    \/ type = "CharsetDetectionError" /\ class = "ValueError"

\* The classes of the except clause that re-raises, with their subclasses.
IsSubclass(type, class) ==
    \/ type = class
    \/ type = "UnicodeDecodeError" /\ class = "ValueError"

\* Mutant: there is no re-raising except clause, every exception is caught.
Propagated_Nothing(type) == FALSE

Propagated(type) ==
    \E class \in {"AssertionError", "TypeError", "SyntaxError", "ValueError"} :
        IsSubclass(type, class)

CaughtExceptions == {"OSError", "CharsetDetectionError"}
PropagatedExceptions ==
    {"AssertionError", "TypeError", "SyntaxError", "ValueError", "UnicodeDecodeError"}

NoResponse == [status |-> None, reason |-> None]

\* The body received with a response: read and decoded only for a 200.
Bodies(response) ==
    IF response.status = Some(OK) THEN { Some(c) : c \in Contents } ELSE { None }

Outcomes ==
    LET timed == { tt \in Times \X Times : tt[1] # tt[2] } IN
    \* the round trip completes
       { [exc |-> "none", stage |-> "done", response |-> rc[1], content |-> rc[2],
          t0 |-> Some(tt[1]), t1 |-> Some(tt[2])] :
            rc \in UNION { {r} \X Bodies(r) : r \in Responses }, tt \in timed }
    \* no request is issued
    \cup { [exc |-> e, stage |-> "connect", response |-> NoResponse, content |-> None,
            t0 |-> None, t1 |-> None] : e \in {"OSError", "ValueError"} }
    \* the request fails
    \cup { [exc |-> e, stage |-> "request", response |-> NoResponse, content |-> None,
            t0 |-> Some(tt[1]), t1 |-> Some(tt[2])] :
            e \in {"OSError", "ValueError"}, tt \in timed }
    \* a 200 response whose body cannot be turned into text
    \cup { [exc |-> e, stage |-> "body", response |-> r, content |-> None,
            t0 |-> Some(tt[1]), t1 |-> Some(tt[2])] :
            e \in CaughtExceptions \cup PropagatedExceptions,
            r \in { x \in Responses : x.status = Some(OK) }, tt \in timed }
    \* closing the connection fails
    \cup { [exc |-> "OSError", stage |-> "close", response |-> rc[1], content |-> rc[2],
            t0 |-> Some(tt[1]), t1 |-> Some(tt[2])] :
            rc \in UNION { {r} \X { CHOOSE c \in Bodies(r) : TRUE } : r \in Responses },
            tt \in timed }

\* The except clauses of _fetch_page: a re-raised exception leaves the
\* function, any other Exception becomes a CONNECTION_ERROR tuple.
\* Mutant: there is no generic except clause, every exception is re-raised.
FetchExcept_Reraises(exception, tuple) ==
    [raise |-> Some(exception), value |-> None]

\* Mutant: the CONNECTION_ERROR branch forgets `http_status = None`.
FetchExcept_KeepsStatus(exception, tuple) ==
    IF Propagated(exception)
    THEN [raise |-> Some(exception), value |-> None]
    ELSE [raise |-> None,
          value |-> [tuple EXCEPT !.result = Some(CONNECTION_ERROR),
                                  !.reason = Some(ExceptionText(exception))]]

FetchExcept(exception, tuple) ==
    IF Propagated(exception)
    THEN [raise |-> Some(exception), value |-> None]
    ELSE [raise |-> None,
          value |-> [tuple EXCEPT !.result      = Some(CONNECTION_ERROR),
                                  !.reason      = Some(ExceptionText(exception)),
                                  !.http_status = None]]

FetchPage(url, o) ==
    LET t_init == [page_content |-> None, result |-> None, http_status |-> None,
                   reason |-> None, start_time |-> None, end_time |-> None]
        \* start_time = time.time(); try: request ... finally: end_time = time.time()
        t_timed == [t_init EXCEPT !.start_time = o.t0, !.end_time = o.t1]
        \* reason = response.reason; http_status = response.status
        t_resp  == [t_timed EXCEPT !.reason = o.response.reason,
                                   !.http_status = o.response.status]
        \* page_content = response.read().decode(...)
        t_read  == IF o.response.status = Some(OK)
                   THEN [t_resp EXCEPT !.page_content = o.content]
                   ELSE t_resp
    IN  CASE o.stage = "connect" -> FetchExcept(o.exc, t_init)
          [] o.stage = "request" -> FetchExcept(o.exc, t_timed)
          [] o.stage = "body"    -> FetchExcept(o.exc, t_resp)
          [] o.stage = "close"   -> FetchExcept(o.exc, t_read)
          [] OTHER               -> [raise |-> None, value |-> t_read]

(***************************************************************************)
(* HttpWatchdog.probe: one iteration of the generator, for one page.       *)
(***************************************************************************)
\* regex.search(page_content) finds a match
Search(regex, page_content) == regex \in Value(page_content)

\* Mutant: pattern_found starts False and is set by any regex that matches.
RECURSIVE PatternFound_Any(_, _, _)
PatternFound_Any(regexes, page_content, j) ==
    IF j > Len(regexes) THEN FALSE
    ELSE IF Search(regexes[j], page_content) THEN TRUE
    ELSE PatternFound_Any(regexes, page_content, j + 1)

\* The loop over page_config['regexes'], from regex j on: it stops at the
\* first regex without a match.
RECURSIVE PatternFound(_, _, _)
PatternFound(regexes, page_content, j) ==
    IF j > Len(regexes) THEN TRUE
    ELSE IF ~Search(regexes[j], page_content) THEN FALSE
    ELSE PatternFound(regexes, page_content, j + 1)

\* Mutant: the loop has no break, every regex is searched.
RECURSIVE Searched_NoBreak(_, _, _)
Searched_NoBreak(regexes, page_content, j) ==
    IF j > Len(regexes) THEN << >>
    ELSE << regexes[j] >> \o Searched_NoBreak(regexes, page_content, j + 1)

\* The regexes the loop calls search() on, in the order of the calls, from
\* regex j on.
RECURSIVE Searched(_, _, _)
Searched(regexes, page_content, j) ==
    IF j > Len(regexes) THEN << >>
    ELSE IF ~Search(regexes[j], page_content) THEN << regexes[j] >>
    ELSE << regexes[j] >> \o Searched(regexes, page_content, j + 1)

\* Mutant: the verdict is taken from the status alone, the fetch's own
\* CONNECTION_ERROR is not adopted.
Classify_IgnoresFetchResult(page_config, tuple) ==
    IF tuple.http_status = Some(OK) /\ tuple.page_content # None
    THEN IF PatternFound(page_config.regexes, tuple.page_content, 1)
         THEN MATCH ELSE NO_MATCH
    ELSE HTTP_ERROR

Classify(page_config, tuple) ==
    IF tuple.result = None
    THEN IF tuple.http_status = Some(OK)
         THEN IF PatternFound(page_config.regexes, tuple.page_content, 1)
              THEN MATCH ELSE NO_MATCH
         ELSE HTTP_ERROR
    ELSE Value(tuple.result)

\* The record probe() yields for a page, or the exception that leaves it
\* (by "fetch": raised by _fetch_page; by "probe": an assertion of probe).
\* utcnow is the reading of datetime.utcnow() at the yield.
ProbePage(page_config, o, utcnow) ==
    LET f == FetchPage(page_config.url, o) IN
    IF f.raise # None THEN [raise |-> f.raise, by |-> "fetch", value |-> None]
    ELSE LET tuple == f.value IN
         IF tuple.result = None /\ tuple.http_status = Some(OK) /\ tuple.page_content = None
         THEN [raise |-> Some("AssertionError"), by |-> "probe", value |-> None]
         ELSE IF ~( (tuple.start_time = None /\ tuple.end_time = None)
                    \/ Value(tuple.end_time) >= Value(tuple.start_time) )
         THEN [raise |-> Some("AssertionError"), by |-> "probe", value |-> None]
         ELSE [raise |-> None,
               times |-> [start_time |-> tuple.start_time, end_time |-> tuple.end_time],
               searched |-> IF tuple.result = None /\ tuple.http_status = Some(OK)
                            THEN Searched(page_config.regexes, tuple.page_content, 1)
                            ELSE << >>,
               value |-> [result           |-> Classify(page_config, tuple),
                          http_status      |-> tuple.http_status,
                          reason           |-> tuple.reason,
                          last_probed_at   |-> utcnow,
                          request_duration |-> IF tuple.end_time # None
                                               THEN Some(Value(tuple.end_time) - Value(tuple.start_time))
                                               ELSE None]]

(***************************************************************************)
(* HttpWatchdog._process_asynchronous_exceptions                           *)
(***************************************************************************)
\* Mutant: the queue is never looked at.
ProcessAsynchronousExceptions_Ignores(queue) == [raise |-> None, queue |-> queue]

\* if not exception_queue.empty(): raise what get_nowait() returns
ProcessAsynchronousExceptions(queue) ==
    IF queue # << >>
    THEN [raise |-> Some(Head(queue)), queue |-> Tail(queue)]
    ELSE [raise |-> None, queue |-> queue]

(***************************************************************************)
(* The state when main() is entered: there is no watchdog and no report    *)
(* server thread yet.                                                      *)
(***************************************************************************)
NoSweep(configs) ==
    [gets |-> [k \in 1..Len(configs) |-> 0],
     puts |-> [k \in 1..Len(configs) |-> 0],
     made |-> [k \in 1..Len(configs) |-> None],
     logs |-> [k \in 1..Len(configs) |-> << >>]]

NotStarted ==
    /\ main_pc = "gather_settings"
    /\ settings = None
    /\ exit_status = None
    /\ error_log = {}
    /\ probe_interval = None
    /\ page_configs  = << >>
    /\ probe_results = << >>
    /\ sweep         = NoSweep(<< >>)
    /\ exception_queue = << >>
    /\ pc = "probe"
    /\ i = 1
    /\ result = None
    /\ fetched = None
    /\ raised = None
    /\ published = {}
    /\ server = "not_started"
    /\ server_exc = None
    /\ request = None

Init ==
    /\ NotStarted
    /\ call = None
    /\ ret = None

\* run_forever is executing.
Running == main_pc = "run_watchdog" /\ pc # "raised"

(***************************************************************************)
(* HttpWatchdog.run_forever (with the generator probe() it iterates)       *)
(***************************************************************************)
\* run_forever is left by an exception: its frame and the generator's are
\* gone, main() ends the process and the daemon thread dies with the request
\* it was handling.
Raise(exception, by) ==
    /\ pc' = "raised"
    /\ raised' = [exc |-> exception, by |-> by]
    /\ result' = None
    /\ fetched' = None
    /\ request' = None

\* next() on the generator: probe() fetches page i and yields its record,
\* or an exception leaves probe() and run_forever.
Fetch ==
    /\ Running
    /\ UNCHANGED pure_vars
    /\ pc = "probe"
    /\ \E o \in Outcomes, utcnow \in UtcNow :
          LET p == ProbePage(page_configs[i], o, utcnow) IN
          IF p.raise # None
          THEN /\ Raise(Value(p.raise), p.by)
               /\ UNCHANGED i
          ELSE /\ result' = p.value
               /\ fetched' = [exc |-> o.exc, stage |-> o.stage, response |-> o.response,
                               content |-> o.content, searched |-> p.searched,
                               times |-> p.times]
               /\ pc' = "yielded"
               /\ UNCHANGED << i, raised >>
    /\ sweep' = [sweep EXCEPT !.gets[i] = @ + 1,
                              !.made[i] = IF pc' = "yielded" THEN result' ELSE @]
    /\ pc' # "raised" => UNCHANGED request
    /\ UNCHANGED << probe_interval, page_configs, probe_results, exception_queue,
                    published, server, server_exc >>
    /\ UNCHANGED main_vars

\* Mutant: the record is appended to the list.
StoreResult_Appends(results, slot, record) == Append(results, record)

\* Mutant: a filled slot is updated in place, field by field, and the update
\* leaves out the fields describing the request.
StoreResult_InPlace(results, slot, record) ==
    IF results[slot] = None
    THEN [results EXCEPT ![slot] = record]
    ELSE [results EXCEPT ![slot].result         = record.result,
                         ![slot].last_probed_at = record.last_probed_at]

\* Mutant: the slot index is off by one (Python's index -1 is the last slot).
StoreResult_OffByOne(results, slot, record) ==
    [results EXCEPT ![IF slot = 1 THEN Len(results) ELSE slot - 1] = record]

\* self._probe_results[i] = result
StoreResult(results, slot, record) == [results EXCEPT ![slot] = record]

\* Mutant: every result is logged at INFO.
LogLevel_AlwaysInfo(verdict) == "INFO"

\* The level of the line run_forever logs for a result: by default only the
\* failures are brought to the operator's notice.
LogLevel(verdict) == IF verdict # MATCH THEN "INFO" ELSE "DEBUG"

\* The body of the for loop for the record yielded: the queue is checked,
\* then the record is stored in slot i, asserted on and logged; sweep.logs
\* keeps the levels of the lines logged for each page in this sweep.
\* After the last page the generator is exhausted and the loop ends.
Publish ==
    /\ pc = "yielded"
    /\ UNCHANGED pure_vars
    /\ LET q == ProcessAsynchronousExceptions(exception_queue) IN
       /\ exception_queue' = q.queue
       /\ IF q.raise # None
          THEN /\ Raise(Value(q.raise), "relay")
               /\ UNCHANGED << probe_results, i, sweep, published >>
          ELSE /\ probe_results' = StoreResult(probe_results, i, result)
               /\ published' = published \cup {i}
               /\ IF result.result \notin PublishableResults
                  THEN /\ Raise("AssertionError", "assert")
                       /\ UNCHANGED i
                  ELSE /\ result' = None
                       /\ fetched' = None
                       /\ i' = i + 1
                       /\ pc' = IF i = Len(page_configs) THEN "sweep_end" ELSE "probe"
                       /\ UNCHANGED << raised, request >>
               /\ sweep' = [sweep EXCEPT
                      !.puts[i] = @ + 1,
                      !.logs[i] = IF result.result \in PublishableResults
                                  THEN Append(@, LogLevel(result.result))
                                  ELSE @]
    /\ UNCHANGED << probe_interval, page_configs, server, server_exc >>
    /\ UNCHANGED main_vars

\* After the sweep: the queue is checked once more, then run_forever sleeps.
SweepEnd ==
    /\ pc = "sweep_end"
    /\ UNCHANGED pure_vars
    /\ LET q == ProcessAsynchronousExceptions(exception_queue) IN
       /\ exception_queue' = q.queue
       /\ IF q.raise # None
          THEN Raise(Value(q.raise), "relay")
          ELSE /\ pc' = "sleeping"
               /\ UNCHANGED << result, fetched, raised, request >>
    /\ UNCHANGED << probe_interval, page_configs, probe_results, i, sweep,
                    published, server, server_exc >>
    /\ UNCHANGED main_vars

\* Mutant: every sweep starts from an empty table.
Sleep_ResetsTable ==
    /\ pc = "sleeping"
    /\ UNCHANGED pure_vars
    /\ pc' = "probe"
    /\ i' = 1
    /\ sweep' = NoSweep(page_configs)
    /\ probe_results' = InitialProbeResults(page_configs)
    /\ UNCHANGED << probe_interval, page_configs, exception_queue,
                    result, fetched, raised, published, server, server_exc, request >>
    /\ UNCHANGED main_vars

\* Mutant: run_forever returns after the sleep instead of looping.
Sleep_Returns ==
    /\ pc = "sleeping"
    /\ UNCHANGED pure_vars
    /\ pc' = "returned"
    /\ UNCHANGED << probe_interval, page_configs, probe_results, exception_queue, i, sweep,
                    result, fetched, raised, published, server, server_exc, request >>
    /\ UNCHANGED main_vars

\* time.sleep(self._probe_interval) returns: the next sweep starts.
Sleep ==
    /\ pc = "sleeping"
    /\ UNCHANGED pure_vars
    /\ pc' = "probe"
    /\ i' = 1
    /\ sweep' = NoSweep(page_configs)
    /\ UNCHANGED << probe_interval, page_configs, probe_results, exception_queue,
                    result, fetched, raised, published, server, server_exc, request >>
    /\ UNCHANGED main_vars

\* Ctrl+C: KeyboardInterrupt is raised in the main thread, wherever it is.
Interrupt ==
    /\ Running
    /\ UNCHANGED pure_vars
    /\ Raise("KeyboardInterrupt", "interrupt")
    /\ UNCHANGED << probe_interval, page_configs, probe_results, exception_queue,
                    i, sweep, published, server, server_exc >>
    /\ UNCHANGED main_vars

(***************************************************************************)
(* ReportServer._main (the daemon thread; it dies with the process once    *)
(* run_forever has been left)                                              *)
(***************************************************************************)
\* TCPServer(("", port), handler) has bound the port; serve_forever() runs.
ServerBind ==
    /\ Running
    /\ UNCHANGED pure_vars
    /\ server = "starting"
    /\ server' = "serving"
    /\ UNCHANGED << probe_interval, page_configs, probe_results, exception_queue,
                    pc, i, result, fetched, raised, sweep, published, server_exc, request >>
    /\ UNCHANGED main_vars

\* Mutant: _main has no except clause, the exception ends the thread unseen.
ServerExcept_Drops(queue, exception) == queue

\* except: self.exception_queue.put(sys.exc_info())
ServerExcept(queue, exception) == Append(queue, exception)

\* TCPServer(...) or serve_forever() raises: the thread passes the exception on and ends.
ServerFail ==
    /\ Running
    /\ UNCHANGED pure_vars
    /\ server \in {"starting", "serving"}
    /\ request = None
    /\ \E e \in ServerExceptions :
          /\ exception_queue' = ServerExcept(exception_queue, e)
          /\ server_exc' = Some(e)
    /\ server' = "dead"
    /\ UNCHANGED << probe_interval, page_configs, probe_results,
                    pc, i, result, fetched, raised, sweep, published, request >>
    /\ UNCHANGED main_vars

(***************************************************************************)
(* ReportingHTTPRequestHandler.do_HEAD / do_GET with                       *)
(* ReportPageGenerator.generate_report                                     *)
(***************************************************************************)
REPORT_PAGE_PATH == "/"
Methods == {"GET", "HEAD"}
Paths == {"/", "/favicon.ico"}

\* Mutant: do_HEAD answers 200 whatever the path.
HeadStatus_AlwaysOK(path) == OK

\* do_HEAD: the status line sent for a path
HeadStatus(path) == IF path = REPORT_PAGE_PATH THEN OK ELSE NOT_FOUND

\* do_HEAD: the Content-type header sent for a path
HeadContentType(path) ==
    IF path = REPORT_PAGE_PATH THEN "text/html" ELSE "text/html"

\* do_GET: the page written after the headers, by the template it is made
\* from and the report path given to the template.
GetBody(path) ==
    IF path = REPORT_PAGE_PATH
    THEN [template |-> "report.html", report_page_path |-> None]
    ELSE [template |-> "error-404.html", report_page_path |-> Some(REPORT_PAGE_PATH)]

\* A request arrives.  do_HEAD answers it; do_GET for the report path then
\* takes the two lists and generate_report asserts that their lengths agree.
HandleRequest ==
    /\ Running
    /\ UNCHANGED pure_vars
    /\ server = "serving"
    /\ request = None
    /\ \E method \in Methods, path \in Paths :
          request' = [method |-> method, path |-> path, status |-> HeadStatus(path),
                      content_type |-> HeadContentType(path),
                      body |-> IF method = "GET" THEN GetBody(path) ELSE None,
                      at  |-> IF method = "GET" /\ path = REPORT_PAGE_PATH
                              THEN IF Len(probe_results) = Len(page_configs)
                                   THEN "rows" ELSE "assertion_error"
                              ELSE "done",
                      k   |-> 1,
                      row |-> None,
                      urls |-> << >>,
                      html |-> None]
    /\ UNCHANGED << probe_interval, page_configs, probe_results, exception_queue,
                    pc, i, result, fetched, raised, sweep, published, server, server_exc >>
    /\ UNCHANGED main_vars

\* Mutant: the labels are the names of the enumeration: underscores, not spaces.
ToStr_Underscores(verdict) ==
    CASE verdict = MATCH            -> "MATCH"
      [] verdict = NO_MATCH         -> "NO_MATCH"
      [] verdict = HTTP_ERROR       -> "HTTP_ERROR"
      [] verdict = CONNECTION_ERROR -> "CONNECTION_ERROR"
      [] verdict = NOT_PROBED_YET   -> "NOT_PROBED_YET"

\* ProbeResult.to_str
ToStr(verdict) ==
    CASE verdict = MATCH            -> "MATCH"
      [] verdict = NO_MATCH         -> "NO MATCH"
      [] verdict = HTTP_ERROR       -> "HTTP ERROR"
      [] verdict = CONNECTION_ERROR -> "CONNECTION ERROR"
      [] verdict = NOT_PROBED_YET   -> "NOT PROBED YET"

\* The body of generate_report's loop: the fields of the table row made from
\* a slot and its page configuration, or the exception raised.  A field is
\* None when it is the empty string.  The status field is the status code
\* (if any), a space and the reason; the duration field is the duration in
\* milliseconds followed by " ms"; the age field is the rounded number of
\* seconds since the probe followed by " seconds ago"; the tooltip is the
\* time of the probe (if any) followed by a text.
RenderRow(slot, config, utcnow) ==
    IF slot # None
    THEN IF slot.result \notin PublishableResults
         THEN [raise |-> Some("AssertionError"), value |-> None]
         ELSE IF slot.reason = None
         THEN [raise |-> Some("TypeError"), value |-> None]
         ELSE [raise |-> None,
               value |-> [url                 |-> config.url,
                          status              |-> ToStr(slot.result),
                          http_status         |-> Some([code   |-> slot.http_status,
                                                        reason |-> Value(slot.reason)]),
                          request_duration    |-> IF slot.request_duration # None
                                                  THEN Some(Value(slot.request_duration) * 1000)
                                                  ELSE None,
                          seconds_since_probe |-> Some(utcnow - slot.last_probed_at),
                          last_probed_at      |-> [time |-> Some(slot.last_probed_at),
                                                   text |-> " UTC"]]]
    ELSE [raise |-> None,
          value |-> [url                 |-> config.url,
                     status              |-> "NOT PROBED YET",
                     http_status         |-> None,
                     request_duration    |-> None,
                     seconds_since_probe |-> None,
                     last_probed_at      |-> [time |-> None, text |-> "NOT PROBED YET"]]]

\* zip(probe_results, page_configs) hands out the next pair
ReadSlot(results, k) == results[k]

\* Mutant: the loop puts a NOT_PROBED_YET placeholder record into an empty slot.
ReadRow_FillsPlaceholder ==
    /\ Running
    /\ UNCHANGED pure_vars
    /\ request # None
    /\ request.at = "rows"
    /\ request.k <= Len(page_configs)
    /\ \E utcnow \in UtcNow :
          LET slot == ReadSlot(probe_results, request.k)
              r    == RenderRow(slot, page_configs[request.k], utcnow)
          IN  IF r.raise # None
              THEN request' = [request EXCEPT !.row = slot, !.at = "render_error"]
              ELSE request' = [request EXCEPT !.row  = slot,
                                              !.html = r.value,
                                              !.urls = Append(@, r.value.url),
                                              !.k    = @ + 1]
    /\ probe_results' =
          IF probe_results[request.k] = None
          THEN [probe_results EXCEPT ![request.k] =
                   [result |-> NOT_PROBED_YET, http_status |-> None, reason |-> None,
                    last_probed_at |-> 0, request_duration |-> None]]
          ELSE probe_results
    /\ UNCHANGED << probe_interval, page_configs, exception_queue,
                    pc, i, result, fetched, raised, sweep, published, server, server_exc >>
    /\ UNCHANGED main_vars

\* One iteration of generate_report's loop: row k is made from slot k as it is now.
ReadRow ==
    /\ Running
    /\ UNCHANGED pure_vars
    /\ request # None
    /\ request.at = "rows"
    /\ request.k <= Len(page_configs)
    /\ \E utcnow \in UtcNow :
          LET slot == ReadSlot(probe_results, request.k)
              r    == RenderRow(slot, page_configs[request.k], utcnow)
          IN  IF r.raise # None
              THEN request' = [request EXCEPT !.row = slot, !.at = "render_error"]
              ELSE request' = [request EXCEPT !.row  = slot,
                                              !.html = r.value,
                                              !.urls = Append(@, r.value.url),
                                              !.k    = @ + 1]
    /\ UNCHANGED << probe_interval, page_configs, probe_results, exception_queue,
                    pc, i, result, fetched, raised, sweep, published, server, server_exc >>
    /\ UNCHANGED main_vars

\* The page is written (or the failed request is dropped by the server);
\* the server waits for the next request.
FinishRequest ==
    /\ Running
    /\ UNCHANGED pure_vars
    /\ request # None
    /\ request.at = "rows" => request.k > Len(page_configs)
    /\ request' = None
    /\ UNCHANGED << probe_interval, page_configs, probe_results, exception_queue,
                    pc, i, result, fetched, raised, sweep, published, server, server_exc >>
    /\ UNCHANGED main_vars

(***************************************************************************)
(* main(): gather_settings, create_watchdog, start_report_server,          *)
(* run_watchdog                                                            *)
(***************************************************************************)
\* What SettingsManager.gather() ends with: valid settings, or ConfigurationError.
\* The settings tried are every page configuration with a probe interval of
\* zero, and the one-page configuration with the default interval.
GatherOutcomes ==
    { [exc |-> "none", settings |-> [probe_interval |-> pi[1], pages |-> pi[2]]] :
          pi \in { x \in ProbeIntervals \X InputPageConfigs : x[1] = 0 \/ Len(x[2]) = 1 } }
    \cup { [exc |-> "ConfigurationError", settings |-> None] }

\* Mutant: gather_settings logs the ConfigurationError and goes on with the
\* settings gathered so far.
GatherSettings_NoExit ==
    /\ main_pc = "gather_settings"
    /\ UNCHANGED pure_vars
    /\ \E g \in GatherOutcomes :
          IF g.exc = "ConfigurationError"
          THEN /\ error_log' = error_log \cup {"ConfigurationError"}
               /\ settings' = [probe_interval |-> DEFAULT_PROBE_INTERVAL,
                               pages |-> << InputPage(1) >>]
               /\ main_pc' = "create_watchdog"
               /\ UNCHANGED exit_status
          ELSE /\ settings' = g.settings
               /\ main_pc' = "create_watchdog"
               /\ UNCHANGED << exit_status, error_log >>
    /\ UNCHANGED << probe_interval, page_configs, probe_results, exception_queue, pc, i,
                    result, fetched, raised, sweep, published, server, server_exc, request >>

\* gather_settings: a ConfigurationError is logged and ends the process
\* with sys.exit(1).
GatherSettings ==
    /\ main_pc = "gather_settings"
    /\ UNCHANGED pure_vars
    /\ \E g \in GatherOutcomes :
          IF g.exc = "ConfigurationError"
          THEN /\ error_log' = error_log \cup {"ConfigurationError"}
               /\ exit_status' = Some(1)
               /\ main_pc' = "exited"
               /\ UNCHANGED settings
          ELSE /\ settings' = g.settings
               /\ main_pc' = "create_watchdog"
               /\ UNCHANGED << exit_status, error_log >>
    /\ UNCHANGED << probe_interval, page_configs, probe_results, exception_queue, pc, i,
                    result, fetched, raised, sweep, published, server, server_exc, request >>

\* create_watchdog: HttpWatchdog(settings['probe_interval'], settings['pages'])
CreateWatchdog ==
    /\ main_pc = "create_watchdog"
    /\ UNCHANGED pure_vars
    /\ probe_interval' = Some(settings.probe_interval)
    /\ page_configs'   = CompilePageConfigs(settings.pages)
    /\ probe_results'  = InitialProbeResults(CompilePageConfigs(settings.pages))
    /\ sweep'          = NoSweep(settings.pages)
    /\ main_pc' = "start_report_server"
    /\ UNCHANGED << exception_queue, pc, i, result, fetched, raised, published,
                    server, server_exc, request, settings, exit_status, error_log >>

\* start_report_server: the daemon thread is started; main() goes on to
\* call run_watchdog, which calls run_forever.
StartReportServer ==
    /\ main_pc = "start_report_server"
    /\ UNCHANGED pure_vars
    /\ server' = "starting"
    /\ main_pc' = "run_watchdog"
    /\ UNCHANGED << probe_interval, page_configs, probe_results, exception_queue, pc, i,
                    result, fetched, raised, sweep, published, server_exc, request,
                    settings, exit_status, error_log >>

\* Mutant: run_watchdog has no `except KeyboardInterrupt` clause.
RunWatchdogExcept_NoInterruptClause(exception) ==
    CASE exception = "PermissionError"     -> [errors |-> {exception}, status |-> 0]
      [] exception = "OSError(EADDRINUSE)" -> [errors |-> {exception}, status |-> 0]
      [] OTHER                             -> [errors |-> {}, status |-> 1]

\* The except clauses of run_watchdog, for the exception that left
\* run_forever.  After a clause that only logs, run_watchdog and main()
\* return and the interpreter ends with status 0; sys.exit(0) ends it with
\* status 0; an exception no clause handles leaves main() and the
\* interpreter ends with status 1.
RunWatchdogExcept(exception) ==
    CASE exception = "PermissionError"     -> [errors |-> {exception}, status |-> 0]
      [] exception = "OSError(EADDRINUSE)" -> [errors |-> {exception}, status |-> 0]
      [] exception = "KeyboardInterrupt"   -> [errors |-> {}, status |-> 0]
      [] OTHER                             -> [errors |-> {}, status |-> 1]

\* run_forever has raised: run_watchdog handles the exception and the
\* process ends.
Exit ==
    /\ main_pc = "run_watchdog"
    /\ UNCHANGED pure_vars
    /\ pc = "raised"
    /\ LET h == RunWatchdogExcept(raised.exc) IN
          /\ error_log' = error_log \cup h.errors
          /\ exit_status' = Some(h.status)
    /\ main_pc' = "exited"
    /\ UNCHANGED << probe_interval, page_configs, probe_results, exception_queue, pc, i,
                    result, fetched, raised, sweep, published, server, server_exc, request,
                    settings >>

(***************************************************************************)
(* Specifications                                                          *)
(***************************************************************************)
Scheduler == Fetch \/ Publish \/ SweepEnd \/ Sleep

MainThread == GatherSettings \/ CreateWatchdog \/ StartReportServer \/ Scheduler \/ Exit

Next ==
    \/ Fetch
    \/ Publish
    \/ SweepEnd
    \/ Sleep
    \/ Interrupt
    \/ ServerBind
    \/ ServerFail
    \/ HandleRequest
    \/ ReadRow
    \/ FinishRequest
    \/ GatherSettings
    \/ CreateWatchdog
    \/ StartReportServer
    \/ Exit

Spec == Init /\ [][Next]_vars

\* The main thread keeps running: start-up proceeds, a fetch ends (the
\* connection has a timeout) and a sleep ends.
FairSpec == Spec /\ WF_vars(MainThread)

(***************************************************************************)
(* Properties                                                              *)
(***************************************************************************)
Slots == 1..Len(page_configs)

\* C1: the verdict of a probe follows the precedence transport failure >
\* non-200 status > pattern outcome.  For the record probe() has yielded:
\* if the fetch met a (caught) exception the verdict is CONNECTION_ERROR,
\* whatever was received and whatever the page's patterns are; otherwise if
\* the status is not 200 the verdict is HTTP_ERROR; and the verdict is MATCH
\* or NO_MATCH only for a fetch that completed with status 200.
C1_VerdictPrecedence ==
    pc = "yielded" =>
        /\ fetched.exc # "none" => result.result = CONNECTION_ERROR
        /\ (fetched.exc = "none" /\ fetched.response.status # Some(OK))
              => result.result = HTTP_ERROR
        /\ result.result \in {MATCH, NO_MATCH}
              => (fetched.exc = "none" /\ fetched.response.status = Some(OK))

\* A 200 response was received for the page without patterns (any content
\* matches), the fetch then failed, and the verdict is CONNECTION_ERROR.
C1_Witness ==
    /\ pc = "yielded"
    /\ page_configs[i].regexes = << >>
    /\ fetched.exc = "OSError"
    /\ fetched.response.status = Some(OK)
    /\ result.result = CONNECTION_ERROR

\* C2: every result published into the result table has a verdict among
\* MATCH, NO_MATCH, HTTP_ERROR, CONNECTION_ERROR (never NOT_PROBED_YET);
\* its http_status is absent exactly when the verdict is CONNECTION_ERROR;
\* MATCH and NO_MATCH come with status 200, HTTP_ERROR with a status that
\* is present and not 200; and its reason is the reason phrase received
\* with that status when there is one, otherwise the text of the failure.
\* Stated of every filled slot, and of the record about to be stored
\* against the fetch that made it.
C2_WellFormed(r) ==
    /\ r.result \in PublishableResults
    /\ r.result # NOT_PROBED_YET
    /\ r.http_status = None <=> r.result = CONNECTION_ERROR
    /\ r.result \in {MATCH, NO_MATCH} => r.http_status = Some(OK)
    /\ r.result = HTTP_ERROR => (r.http_status # None /\ r.http_status # Some(OK))
    /\ IF r.http_status # None
       THEN [status |-> r.http_status, reason |-> r.reason] \in Responses
       ELSE \E e \in CaughtExceptions : r.reason = Some(ExceptionText(e))

C2_PublishedResults ==
    /\ \A k \in DOMAIN probe_results :
          probe_results[k] # None => C2_WellFormed(probe_results[k])
    /\ pc = "yielded" =>
          /\ C2_WellFormed(result)
          /\ result.reason = IF result.http_status # None
                             THEN fetched.response.reason
                             ELSE Some(ExceptionText(fetched.exc))

\* The table holds a CONNECTION_ERROR made after a response had been
\* received, next to an HTTP_ERROR.
C2_Witness ==
    /\ Len(probe_results) = 2
    /\ probe_results[1] # None
    /\ probe_results[1].result = CONNECTION_ERROR
    /\ probe_results[1].reason = Some("Found multiple charset fields")
    /\ probe_results[2] # None
    /\ probe_results[2].result = HTTP_ERROR

\* The fetch of page i has failed at the transport layer and probe() has
\* yielded its record.
C3_Failed == pc = "yielded" /\ fetched.exc # "none"

\* run_forever goes on from the yielded record by storing it in slot i and
\* turning to page i + 1 of the same sweep (to the end of the sweep after
\* the last page).
C3_Recovered ==
    /\ probe_results' = [probe_results EXCEPT ![i] = result]
    /\ result.result = CONNECTION_ERROR
    /\ result.http_status = None
    /\ result.reason = Some(ExceptionText(fetched.exc))
    /\ i' = i + 1
    /\ pc' = IF i = Len(page_configs) THEN "sweep_end" ELSE "probe"

C4_TableShape ==
    /\ Len(probe_results) = Len(page_configs)
    /\ DOMAIN probe_results = DOMAIN page_configs
    /\ request # None => request.at # "assertion_error"

\* A report request passed the assertion and reads the table in the middle
\* of a later sweep over two pages.
C4_Witness ==
    /\ Len(page_configs) = 2
    /\ pc = "yielded"
    /\ i = 2
    /\ published = {1, 2}
    /\ request # None
    /\ request.at = "rows"
    /\ request.k = 2

\* The handler's step that reads slot k of the live table.
ReadsSlot(k) ==
    /\ request # None
    /\ request.at = "rows"
    /\ request.k = k
    /\ request' # None
    /\ request'.k = k + 1

\* C5: once slot k has been filled by a first published result, no later
\* read of slot k by a report handler observes an empty slot, under any
\* interleaving of the scheduler and the handlers.
C5_NoRevertToEmpty ==
    [][ \A k \in DOMAIN page_configs :
           (k \in published /\ ReadsSlot(k)) => request'.row # None ]_vars

\* The handler has read slot 1 after it was filled.
C5_Witness ==
    /\ 1 \in published
    /\ request # None
    /\ request.at = "rows"
    /\ request.k = 2
    /\ request.row # None

\* C6: a slot changes only by being replaced, in one step, by the complete
\* record probe() yielded for that page (a record is never changed once it
\* is in the table), and a handler reading slot k gets either the complete
\* record that was there or the complete record that replaces it.
RecordFields == {"result", "http_status", "reason", "last_probed_at", "request_duration"}

C6_WholesaleReplacement ==
    [][ /\ \A k \in DOMAIN probe_results :
              probe_results'[k] # probe_results[k]
                 => /\ pc = "yielded"
                    /\ k = i
                    /\ DOMAIN result = RecordFields
                    /\ result = sweep.made[k]
                    /\ probe_results'[k] = result
        /\ \A k \in DOMAIN page_configs :
              ReadsSlot(k) => request'.row \in {probe_results[k], probe_results'[k]} ]_vars

\* Slot 1 has been replaced by a record of another verdict while a handler
\* holds the record it read there before.
C6_Witness ==
    /\ 1 \in published
    /\ sweep.puts[1] = 1
    /\ probe_results[1] = sweep.made[1]
    /\ request # None
    /\ request.at = "rows"
    /\ request.k = 2
    /\ request.row # None
    /\ request.row.result # probe_results[1].result

\* C7: handling a report request (GET or HEAD, any path) leaves the result
\* table, its records and the page configuration list unchanged; the page
\* configuration list never changes once the constructor has made it; and
\* the only step that changes the result table the constructor has made is
\* run_forever's assignment to slot i.
C7_SingleWriter ==
    [][ /\ (request' # request /\ pc' = pc)
              => (probe_results' = probe_results /\ page_configs' = page_configs)
        /\ main_pc # "create_watchdog" => page_configs' = page_configs
        /\ (main_pc # "create_watchdog" /\ probe_results' # probe_results)
              => /\ pc = "yielded"
                 /\ probe_results' = [probe_results EXCEPT ![i] = result]
                 /\ request' = request ]_vars

\* A GET of the report has read every row of a table that is partly filled.
C7_Witness ==
    /\ Len(page_configs) = 2
    /\ request # None
    /\ request.method = "GET"
    /\ request.at = "rows"
    /\ request.k = 3
    /\ probe_results[1] # None
    /\ probe_results[2] = None

\* In the current sweep page k has been fetched once and its record stored
\* once, and slot k holds the record this sweep made for page k.
C8_Done(k) ==
    /\ sweep.gets[k] = 1
    /\ sweep.puts[k] = 1
    /\ sweep.made[k] # None
    /\ probe_results[k] = sweep.made[k]

\* The current sweep has not reached page k.
C8_NotReached(k) ==
    /\ sweep.gets[k] = 0
    /\ sweep.puts[k] = 0
    /\ sweep.made[k] = None

\* C8: within a sweep the pages are fetched one at a time in configuration
\* order, each with exactly one GET, and the record of page k goes to slot
\* k: when page i is about to be fetched the pages before it (and no
\* others) have been fetched once and stored once; while the record of
\* page i waits to be stored only page i has been fetched beyond them; and
\* when the sweep has completed every slot has been replaced exactly once
\* by the record this sweep made for its page.
C8_SweepOrder ==
    /\ pc = "probe" =>
          \A k \in Slots : IF k < i THEN C8_Done(k) ELSE C8_NotReached(k)
    /\ pc = "yielded" =>
          /\ \A k \in Slots : k < i => C8_Done(k)
          /\ \A k \in Slots : k > i => C8_NotReached(k)
          /\ sweep.gets[i] = 1
          /\ sweep.puts[i] = 0
          /\ sweep.made[i] = result
    /\ pc \in {"sweep_end", "sleeping"} =>
          \A k \in Slots : C8_Done(k)

\* A sweep over two pages has completed: both slots were replaced by this
\* sweep's records, which differ from each other.
C8_Witness ==
    /\ pc = "sweep_end"
    /\ Len(page_configs) = 2
    /\ C8_Done(1)
    /\ C8_Done(2)
    /\ probe_results[1].result = NO_MATCH
    /\ probe_results[2].result = HTTP_ERROR

\* run_forever has been left by an operator interrupt, a relayed error or
\* a defect propagated from a fetch or from an assertion of probe().
C9_Ended == pc = "raised" /\ raised.by \in {"interrupt", "relay", "fetch", "probe"}

\* The step that stores a record in slot k.
C9_Replaces(k) ==
    /\ pc = "yielded"
    /\ i = k
    /\ pc' # "raised"
    /\ probe_results' = [probe_results EXCEPT ![k] = result]

C11_CheckBeforeFetch ==
    [][ (pc = "probe" /\ exception_queue # << >>)
            => (sweep'.gets = sweep.gets) ]_vars

\* C12: when the report server cannot bind its port (the port is in use, or
\* the privilege is insufficient) and run_forever has raised the relayed
\* error, the error is logged and the process exits with a non-zero status.
C12_BindFailureExit ==
    (/\ main_pc = "exited"
     /\ raised # None
     /\ raised.by = "relay"
     /\ raised.exc \in ServerExceptions)
        => (raised.exc \in error_log /\ exit_status # Some(0))

\* C13: an operator interrupt that arrives while run_forever is executing
\* (before or during a fetch, between a fetch and its store, between pages,
\* after the sweep or during the sleep) leaves run_forever as
\* KeyboardInterrupt, is caught in run_watchdog, and the process exits with
\* status 0.
C13_InterruptExit ==
    /\ [][ (raised' # raised /\ raised'.by = "interrupt")
              => /\ Running
                 /\ raised'.exc = "KeyboardInterrupt"
                 /\ pc' = "raised" ]_vars
    /\ []( (main_pc = "exited" /\ raised # None /\ raised.by = "interrupt")
              => exit_status = Some(0) )
    /\ (pc = "raised" /\ raised.by = "interrupt") ~> (exit_status = Some(0))

\* The operator has interrupted the sleep after a complete sweep over two
\* pages, and the process has exited with status 0.
C13_Witness ==
    /\ main_pc = "exited"
    /\ exit_status = Some(0)
    /\ raised = [exc |-> "KeyboardInterrupt", by |-> "interrupt"]
    /\ Len(page_configs) = 2
    /\ \A k \in Slots : sweep.puts[k] = 1

\* run_forever has started working: something has been fetched or it has
\* been left.
C14_Probing ==
    \/ pc # "probe"
    \/ i # 1
    \/ published # {}
    \/ raised # None
    \/ \E k \in Slots : sweep.gets[k] # 0

\* C14: start-up is ordered settings validation, watchdog construction,
\* report server start, first sweep: a watchdog exists only once settings
\* have been gathered, the report server thread only once a watchdog
\* exists, and a page is fetched only once the thread has been started.
\* When validation raises ConfigurationError the error is logged and the
\* process exits with status 1, with no watchdog constructed, no report
\* server thread started and no page fetched, and nothing happens after.
C14_StartupOrder ==
    /\ []( /\ page_configs # << >> => settings # None
           /\ server # "not_started"
                 => (page_configs # << >> /\ main_pc \in {"run_watchdog", "exited"})
           /\ C14_Probing => server # "not_started"
           /\ main_pc \in {"gather_settings", "create_watchdog", "start_report_server"}
                 => exit_status = None
           /\ (settings = None /\ main_pc # "gather_settings")
                 => /\ main_pc = "exited"
                    /\ "ConfigurationError" \in error_log
                    /\ exit_status = Some(1)
           /\ "ConfigurationError" \in error_log
                 => /\ main_pc = "exited"
                    /\ exit_status = Some(1)
                    /\ page_configs = << >>
                    /\ probe_results = << >>
                    /\ server = "not_started"
                    /\ ~C14_Probing )
    /\ [][ "ConfigurationError" \notin error_log ]_vars

\* Validation has failed: the process has exited with status 1.
C14_Witness ==
    /\ main_pc = "exited"
    /\ "ConfigurationError" \in error_log
    /\ exit_status = Some(1)
    /\ server = "not_started"

\* C15: for a fetch that returned status 200 the verdict probe() yields is
\* MATCH if and only if every configured pattern finds a match in the
\* decoded content, and NO_MATCH otherwise; with an empty pattern list it
\* is MATCH.
C15_MatchIffAllPatterns ==
    (pc = "yielded" /\ result.http_status = Some(OK)) =>
        LET regexes == page_configs[i].regexes IN
        /\ fetched.content # None
        /\ result.result \in {MATCH, NO_MATCH}
        /\ result.result = MATCH
              <=> \A j \in 1..Len(regexes) : regexes[j] \in Value(fetched.content)
        /\ regexes = << >> => result.result = MATCH

\* A 200 response whose content has the first of two patterns but not the
\* second: NO_MATCH.
C15_Witness ==
    /\ pc = "yielded"
    /\ result.http_status = Some(OK)
    /\ page_configs[i].regexes = << "foo", "bar" >>
    /\ fetched.content = Some({"foo"})
    /\ result.result = NO_MATCH

\* C16: the patterns are searched strictly in configured order and the
\* search stops at the first pattern without a match: when the k-th pattern
\* is the first to fail exactly patterns 1..k are searched, in this order,
\* and when none fails all are.
C16_ShortCircuit ==
    (pc = "yielded" /\ result.http_status = Some(OK)) =>
        LET regexes == page_configs[i].regexes
            fails   == { j \in 1..Len(regexes) : regexes[j] \notin Value(fetched.content) }
            k       == IF fails = {} THEN Len(regexes)
                       ELSE CHOOSE j \in fails : \A m \in fails : j <= m
        IN  fetched.searched = SubSeq(regexes, 1, k)

\* The first of two patterns fails on a content the second would match:
\* only the first has been searched.
C16_Witness ==
    /\ pc = "yielded"
    /\ result.http_status = Some(OK)
    /\ page_configs[i].regexes = << "foo", "bar" >>
    /\ fetched.content = Some({"bar"})
    /\ fetched.searched = << "foo" >>

\* The fetch of page i got a 200 response whose Content-Type header holds
\* more than one charset field, and probe() has yielded the page's record.
C17_MultipleCharsets ==
    /\ pc = "yielded"
    /\ fetched.exc = "CharsetDetectionError"
    /\ fetched.response.status = Some(OK)

\* run_forever turns from page i to page i + 1 of the same sweep (to the
\* end of the sweep after the last page).
C17_SweepGoesOn ==
    /\ i' = i + 1
    /\ pc' = IF i = Len(page_configs) THEN "sweep_end" ELSE "probe"
    /\ sweep'.puts = [sweep.puts EXCEPT ![i] = 1]

C18_Defects ==
    {"AssertionError", "TypeError", "SyntaxError", "ValueError", "UnicodeDecodeError"}

\* C18: an AssertionError, TypeError, SyntaxError or ValueError raised
\* during the fetch of page i is never converted into a result (no record
\* is yielded for such a fetch); an exception that leaves the fetch is one
\* of these and leaves run_forever in the same step, with the result table
\* as it was; slots i..n-1 have not been written in this sweep; and the
\* table never changes afterwards.
C18_DefectsPropagate ==
    /\ [](pc = "yielded" => fetched.exc \notin C18_Defects)
    /\ []( (pc = "raised" /\ raised.by = "fetch")
              => /\ raised.exc \in C18_Defects
                 /\ result = None
                 /\ \A k \in Slots : k >= i => sweep.puts[k] = 0 )
    /\ [][ (pc' = "raised" /\ pc # "raised" /\ raised'.by = "fetch")
              => /\ pc = "probe"
                 /\ i' = i
                 /\ probe_results' = probe_results ]_vars
    /\ [][ pc = "raised" => probe_results' = probe_results ]_vars

\* In a later sweep over two pages the fetch of page 2 has raised
\* ValueError: run_forever has been left, slot 1 holds this sweep's record
\* and slot 2 still holds the record of an earlier sweep.
C18_Witness ==
    /\ pc = "raised"
    /\ raised = [exc |-> "ValueError", by |-> "fetch"]
    /\ Len(page_configs) = 2
    /\ i = 2
    /\ sweep.puts = << 1, 0 >>
    /\ published = {1, 2}
    /\ probe_results[2] # None

\* C19: for every fetch outcome start time and end time are both present
\* or both absent; they are absent exactly when no request was issued (the
\* fetch failed before the request was sent); when present the end time is
\* not before the start time, so that the assertion in probe never fails;
\* and the duration in the yielded record is absent if and only if no
\* request was issued.
C19_Timing ==
    /\ pc = "yielded" =>
          /\ (fetched.times.start_time = None) <=> (fetched.times.end_time = None)
          /\ (fetched.times.start_time = None) <=> (fetched.stage = "connect")
          /\ fetched.times.start_time # None
                => Value(fetched.times.end_time) >= Value(fetched.times.start_time)
          /\ (result.request_duration = None) <=> (fetched.stage = "connect")
    /\ pc = "raised" => raised.by # "probe"

\* C20: the report server answers GET and HEAD of the path "/" with status
\* 200 and Content-Type text/html, and GET and HEAD of any other path with
\* status 404 and Content-Type text/html; HEAD sends no body, GET of "/"
\* sends the report page (one row per configured page) and GET of another
\* path sends the error page, which is given "/" to link back to.
C20_ReportServerAnswers ==
    request # None =>
        /\ server = "serving"
        /\ request.content_type = "text/html"
        /\ request.path = "/" => request.status = 200
        /\ request.path # "/" => request.status = 404
        /\ request.method = "HEAD" => (request.body = None /\ request.at = "done")
        /\ (request.method = "GET" /\ request.path = "/")
              => /\ request.body = [template |-> "report.html", report_page_path |-> None]
                 /\ request.at = "rows"
                 /\ request.k \in 1..(Len(page_configs) + 1)
        /\ (request.method = "GET" /\ request.path # "/")
              => /\ request.body = [template |-> "error-404.html", report_page_path |-> Some("/")]
                 /\ request.at = "done"

\* A GET of a path other than "/" is being answered with 404 and the error
\* page, after a GET of "/" could have been (a page has been probed).
C20_Witness ==
    /\ request # None
    /\ request.method = "GET"
    /\ request.path = "/favicon.ico"
    /\ request.status = 404
    /\ request.body.template = "error-404.html"
    /\ published # {}

\* C21: a generated report has one row per configured page, in
\* configuration order; the row of an empty slot shows the label
\* "NOT PROBED YET" with empty status, duration and age fields; the row of
\* a filled slot shows the label of its verdict ("MATCH", "NO MATCH",
\* "HTTP ERROR", "CONNECTION ERROR"), a status field without a code exactly
\* when http_status is absent and an empty duration field exactly when the
\* duration is absent; and generating a row never fails.
C21_ReportRows ==
    (request # None /\ request.method = "GET" /\ request.path = "/") =>
        /\ request.at = "rows"
        /\ request.k \in 1..(Len(page_configs) + 1)
        /\ request.urls = [j \in 1..(request.k - 1) |-> page_configs[j].url]
        /\ (request.k > 1 /\ request.row = None)
              => /\ request.html.status = "NOT PROBED YET"
                 /\ request.html.http_status = None
                 /\ request.html.request_duration = None
                 /\ request.html.seconds_since_probe = None
        /\ (request.k > 1 /\ request.row # None)
              => /\ request.row.result = 0 => request.html.status = "MATCH"
                 /\ request.row.result = 1 => request.html.status = "NO MATCH"
                 /\ request.row.result = 2 => request.html.status = "HTTP ERROR"
                 /\ request.row.result = 3 => request.html.status = "CONNECTION ERROR"
                 /\ request.row.result \in 0..3
                 /\ request.html.http_status # None
                 /\ (Value(request.html.http_status).code = None)
                        <=> (request.row.http_status = None)
                 /\ (request.html.request_duration = None)
                        <=> (request.row.request_duration = None)

\* A report over two pages is complete: its first row shows a NO MATCH and
\* its second, last read, the placeholder of a page not probed yet.
C21_Witness ==
    /\ request # None
    /\ request.at = "rows"
    /\ Len(page_configs) = 2
    /\ request.k = 3
    /\ request.urls = << 1, 2 >>
    /\ request.row = None
    /\ request.html.status = "NOT PROBED YET"
    /\ probe_results[1] # None
    /\ probe_results[1].result = NO_MATCH

(***************************************************************************)
(* Text.  A str is a sequence of one-character strings, so that split,     *)
(* strip and lower are computed on it character by character.              *)
(***************************************************************************)
Whitespace == {" ", "\t", "\n"}

UpperCase == << "A", "C", "E", "F", "H", "R", "S", "T", "U" >>
LowerCase == << "a", "c", "e", "f", "h", "r", "s", "t", "u" >>

\* str.lower() on one character.
LowerChar(c) ==
    IF \E k \in DOMAIN UpperCase : UpperCase[k] = c
    THEN LowerCase[CHOOSE k \in DOMAIN UpperCase : UpperCase[k] = c]
    ELSE c

\* str.lower()
Lower(s) == [k \in 1..Len(s) |-> LowerChar(s[k])]

\* str.strip(): the whitespace at both ends goes, the one inside stays.
Strip(s) ==
    LET inked == {k \in 1..Len(s) : s[k] \notin Whitespace}
    IN  IF inked = {} THEN << >>
        ELSE LET first == CHOOSE k \in inked : \A j \in inked : k <= j
                 last  == CHOOSE k \in inked : \A j \in inked : k >= j
             IN  SubSeq(s, first, last)

\* str.split(sep) with a one-character separator: always at least one part.
RECURSIVE SplitLoop(_, _, _, _, _)
SplitLoop(s, sep, k, part, parts) ==
    IF k > Len(s) THEN Append(parts, part)
    ELSE IF s[k] = sep THEN SplitLoop(s, sep, k + 1, << >>, Append(parts, part))
    ELSE SplitLoop(s, sep, k + 1, Append(part, s[k]), parts)

Split(s, sep) == SplitLoop(s, sep, 1, << >>, << >>)

\* sep.join(parts)
RECURSIVE Join(_, _)
Join(parts, sep) ==
    IF Len(parts) = 0 THEN << >>
    ELSE IF Len(parts) = 1 THEN parts[1]
    ELSE parts[1] \o << sep >> \o Join(Tail(parts), sep)

CHARSET == << "c", "h", "a", "r", "s", "e", "t" >>

(***************************************************************************)
(* HttpWatchdog._detect_response_charset.  The header is None or           *)
(* Some(str); the value returned is None or Some(str), as '' is a str.     *)
(***************************************************************************)
\* Mutant: further charset fields are skipped, the first one wins.
RECURSIVE DetectLoop_FirstWins(_, _, _)
DetectLoop_FirstWins(fields, k, charset) ==
    IF k > Len(fields) THEN [raise |-> None, value |-> charset]
    ELSE LET tokens == Split(fields[k], "=") IN
         IF Len(tokens) = 2 /\ Lower(Strip(tokens[1])) = CHARSET
         THEN IF charset # None
              THEN DetectLoop_FirstWins(fields, k + 1, charset)
              ELSE DetectLoop_FirstWins(fields, k + 1, Some(Strip(tokens[2])))
         ELSE DetectLoop_FirstWins(fields, k + 1, charset)

\* Mutant: the value is lower-cased like the key.
RECURSIVE DetectLoop_FoldsValue(_, _, _)
DetectLoop_FoldsValue(fields, k, charset) ==
    IF k > Len(fields) THEN [raise |-> None, value |-> charset]
    ELSE LET tokens == Split(fields[k], "=") IN
         IF Len(tokens) = 2 /\ Lower(Strip(tokens[1])) = CHARSET
         THEN IF charset # None
              THEN [raise |-> Some("CharsetDetectionError"), value |-> None]
              ELSE DetectLoop_FoldsValue(fields, k + 1, Some(Lower(Strip(tokens[2]))))
         ELSE DetectLoop_FoldsValue(fields, k + 1, charset)

\* The loop over the fields, from field k on, with the charset found so far.
RECURSIVE DetectLoop(_, _, _)
DetectLoop(fields, k, charset) ==
    IF k > Len(fields) THEN [raise |-> None, value |-> charset]
    ELSE LET tokens == Split(fields[k], "=") IN
         IF Len(tokens) = 2 /\ Lower(Strip(tokens[1])) = CHARSET
         THEN IF charset # None
              THEN [raise |-> Some("CharsetDetectionError"), value |-> None]
              ELSE DetectLoop(fields, k + 1, Some(Strip(tokens[2])))
         ELSE DetectLoop(fields, k + 1, charset)

DetectResponseCharset(content_type) ==
    IF content_type = None THEN [raise |-> None, value |-> None]
    ELSE DetectLoop(Split(Value(content_type), ";"), 1, None)

(***************************************************************************)
(* Content-Type headers to detect the charset of.  Each field is given     *)
(* with what it says: whether it declares a charset, and which.            *)
(***************************************************************************)
HeaderFields ==
    { [text |-> << "t", "e", "x", "t", "/", "h", "t", "m", "l" >>,
       declares |-> FALSE, value |-> << >>],
      [text |-> << " ", "c", "h", "a", "r", "s", "e", "t", "=", "u", "t", "f", "-", "8" >>,
       declares |-> TRUE,  value |-> << "u", "t", "f", "-", "8" >>],
      [text |-> << "\t", "C", "h", "a", "r", "S", "E", "T", " ", "=", " ", "U", "T", "F", "-", "8", "\n" >>,
       declares |-> TRUE,  value |-> << "U", "T", "F", "-", "8" >>],
      [text |-> << "c", "h", "a", "r", "s", "e", "t", "=", "l", "a", "t", "i", "n", "1" >>,
       declares |-> TRUE,  value |-> << "l", "a", "t", "i", "n", "1" >>],
      [text |-> << " ", "c", "h", "r", "s", "e", "t", "=", "u", "t", "f", "-", "8" >>,
       declares |-> FALSE, value |-> << >>],
      [text |-> << "c", "h", "a", "r", "s", "e", "t" >>,
       declares |-> FALSE, value |-> << >>],
      [text |-> << "x", " ", "=", " ", "y" >>,
       declares |-> FALSE, value |-> << >>],
      [text |-> << "c", "h", "a", "r", "s", "e", "t", "=", "a", "=", "b" >>,
       declares |-> FALSE, value |-> << >>],
      [text |-> << >>,
       declares |-> FALSE, value |-> << >>] }

Texts(fields) == [k \in 1..Len(fields) |-> fields[k].text]

\* The calls: no header at all, or the fields joined with ';'.
CharsetCalls ==
    { [fields |-> << >>, content_type |-> None] } \cup
    { [fields |-> fs, content_type |-> Some(Join(Texts(fs), ";"))] :
        fs \in UNION { [1..n -> HeaderFields] : n \in 1..MaxFields } }

CharsetInit ==
    /\ NotStarted
    /\ call \in CharsetCalls
    /\ ret = None

DetectCharset ==
    /\ ret = None
    /\ ret' = DetectResponseCharset(call.content_type)
    /\ UNCHANGED << program_vars, call >>

CharsetNext == DetectCharset

CharsetSpec == CharsetInit /\ [][CharsetNext]_vars

\* The fields of the header of the call that declare a charset.
Declaring == {k \in DOMAIN call.fields : call.fields[k].declares}

\* C22: charset detection raises CharsetDetectionError whenever two or more
\* fields of the header declare a charset, whatever their values and places,
\* and returns None without raising when no field declares one, which
\* covers the absent and the empty header.
C22_DuplicateCharset ==
    ret # None =>
        /\ Cardinality(Declaring) >= 2
              => ret = [raise |-> Some("CharsetDetectionError"), value |-> None]
        /\ Cardinality(Declaring) = 0
              => ret = [raise |-> None, value |-> None]

\* Two fields apart declare the same charset and the detection raised.
C22_Witness ==
    /\ ret # None
    /\ Len(call.fields) = 3
    /\ Declaring = {1, 3}
    /\ call.fields[1] = call.fields[3]
    /\ ret.raise = Some("CharsetDetectionError")

\* The empty header gave no charset.
C22_EmptyHeader ==
    /\ ret # None
    /\ call.content_type = Some(<< >>)
    /\ ret = [raise |-> None, value |-> None]

Injections(n) == {p \in [1..n -> 1..n] : \A a, b \in 1..n : p[a] = p[b] => a = b}

\* C23: when exactly one field declares a charset, detection returns that
\* field's value stripped of surrounding whitespace and in its own letter
\* case, the key being matched in any case and with whitespace around it,
\* and every permutation of the fields gives the same result.
C23_SingleCharset ==
    (ret # None /\ Cardinality(Declaring) = 1) =>
        LET k == CHOOSE k \in Declaring : TRUE
            n == Len(call.fields)
        IN  /\ ret = [raise |-> None, value |-> Some(call.fields[k].value)]
            /\ \A p \in Injections(n) :
                  DetectResponseCharset(
                      Some(Join([j \in 1..n |-> call.fields[p[j]].text], ";"))) = ret

\* The charset declared last, with an upper-case key and whitespace around
\* key and value, came back stripped and still in upper case.
C23_Witness ==
    /\ ret # None
    /\ Len(call.fields) = 3
    /\ Declaring = {3}
    /\ call.fields[3].text[2] = "C"
    /\ ret.value = Some(<< "U", "T", "F", "-", "8" >>)

(***************************************************************************)
(* URLs.  Their text is a sequence of Unicode code points, so that the     *)
(* escaping is computed on the characters themselves.                      *)
(***************************************************************************)
Colon        == 58
Slash        == 47
QuestionMark == 63
Percent      == 37
Hyphen       == 45
Dot          == 46

Range(s) == {s[k] : k \in DOMAIN s}

Digits  == 48..57
Letters == (65..90) \cup (97..122)
\* The characters urllib.parse.quote never escapes: letters, digits, "_.-~".
AlwaysSafe == Letters \cup Digits \cup {95, Dot, Hyphen, 126}
\* '=&?/', the characters _dissect_and_escape_url asks quote to keep.
SafeCharacters == {61, 38, QuestionMark, Slash}

\* The bytes of the UTF-8 encoding of one code point.
Utf8(c) ==
    IF c < 128 THEN << c >>
    ELSE IF c < 2048 THEN << 192 + (c \div 64), 128 + (c % 64) >>
    ELSE IF c < 65536
         THEN << 224 + (c \div 4096), 128 + ((c \div 64) % 64), 128 + (c % 64) >>
    ELSE << 240 + (c \div 262144), 128 + ((c \div 4096) % 64),
            128 + ((c \div 64) % 64), 128 + (c % 64) >>

\* An upper-case hexadecimal digit.
HexDigit(n) == IF n < 10 THEN 48 + n ELSE 55 + n

RECURSIVE PercentEncode(_)
PercentEncode(bytes) ==
    IF bytes = << >> THEN << >>
    ELSE << Percent, HexDigit(Head(bytes) \div 16), HexDigit(Head(bytes) % 16) >>
             \o PercentEncode(Tail(bytes))

\* Mutant: the safe characters are escaped like the others.
RECURSIVE Quote_EscapesSafe(_, _)
Quote_EscapesSafe(s, safe) ==
    IF s = << >> THEN << >>
    ELSE (IF Head(s) \in AlwaysSafe
          THEN << Head(s) >>
          ELSE PercentEncode(Utf8(Head(s)))) \o Quote_EscapesSafe(Tail(s), safe)

\* urllib.parse.quote(s, safe)
RECURSIVE Quote(_, _)
Quote(s, safe) ==
    IF s = << >> THEN << >>
    ELSE (IF Head(s) \in AlwaysSafe \cup safe
          THEN << Head(s) >>
          ELSE PercentEncode(Utf8(Head(s)))) \o Quote(Tail(s), safe)

(***************************************************************************)
(* The 'idna' codec: each label of the host that is not ASCII is prepared  *)
(* and encoded with Punycode (RFC 3492) behind the prefix 'xn--'.          *)
(***************************************************************************)
PunycodeDigit(d) == IF d < 26 THEN 97 + d ELSE 22 + d

Threshold(k, bias) ==
    IF k <= bias THEN 1 ELSE IF k >= bias + 26 THEN 26 ELSE k - bias

\* A number as a generalized variable-length integer.
RECURSIVE VariableLengthInteger(_, _, _)
VariableLengthInteger(q, k, bias) ==
    LET th == Threshold(k, bias)
    IN  IF q < th THEN << PunycodeDigit(q) >>
        ELSE << PunycodeDigit(th + ((q - th) % (36 - th))) >>
                 \o VariableLengthInteger((q - th) \div (36 - th), k + 36, bias)

RECURSIVE AdaptLoop(_, _)
AdaptLoop(delta, k) ==
    IF delta > 455 THEN AdaptLoop(delta \div 35, k + 36)
    ELSE k + ((36 * delta) \div (delta + 38))

Adapt(delta, numpoints, first) ==
    LET damped == IF first THEN delta \div 700 ELSE delta \div 2
    IN  AdaptLoop(damped + (damped \div numpoints), 0)

\* One pass over the label for the code point n: st is the state of the
\* encoder (delta, bias, h handled code points, b basic ones, output).
RECURSIVE PunycodePass(_, _, _, _)
PunycodePass(label, j, n, st) ==
    IF j > Len(label) THEN st
    ELSE IF label[j] < n
         THEN PunycodePass(label, j + 1, n, [st EXCEPT !.delta = @ + 1])
    ELSE IF label[j] = n
         THEN PunycodePass(label, j + 1, n,
                  [st EXCEPT !.out   = @ \o VariableLengthInteger(st.delta, 36, st.bias),
                             !.bias  = Adapt(st.delta, st.h + 1, st.h = st.b),
                             !.delta = 0,
                             !.h     = @ + 1])
    ELSE PunycodePass(label, j + 1, n, st)

RECURSIVE PunycodeLoop(_, _, _)
PunycodeLoop(label, n, st) ==
    IF st.h >= Len(label) THEN st.out
    ELSE LET rest == {c \in Range(label) : c >= n}
             m    == CHOOSE c \in rest : \A e \in rest : c <= e
             st1  == PunycodePass(label, 1, m,
                         [st EXCEPT !.delta = @ + ((m - n) * (st.h + 1))])
         IN  PunycodeLoop(label, m + 1, [st1 EXCEPT !.delta = @ + 1])

Punycode(label) ==
    LET basic == SelectSeq(label, LAMBDA c : c < 128)
    IN  PunycodeLoop(label, 128,
            [delta |-> 0, bias |-> 72, h |-> Len(basic), b |-> Len(basic),
             out |-> IF basic = << >> THEN << >> ELSE Append(basic, Hyphen)])

\* 'xn--'
AcePrefix == << 120, 110, Hyphen, Hyphen >>

\* nameprep on the characters of the model: upper-case letters are folded,
\* the other characters map to themselves.
Nameprep(label) ==
    [k \in 1..Len(label) |-> IF label[k] \in 65..90 THEN label[k] + 32 ELSE label[k]]

\* Mutant: labels are not encoded.
ToAscii_KeepsLabel(label) == label

ToAscii(label) ==
    IF \A k \in DOMAIN label : label[k] < 128 THEN label
    ELSE AcePrefix \o Punycode(Nameprep(label))

\* host.encode('idna').decode('ascii')
IdnaEncode(host) ==
    IF host = << >> THEN << >>
    ELSE LET labels == Split(host, Dot)
         IN  Join([k \in 1..Len(labels) |-> ToAscii(labels[k])], Dot)

(***************************************************************************)
(* HttpWatchdog._dissect_and_escape_url                                    *)
(***************************************************************************)
DEFAULT_PORTS == [http |-> 80, https |-> 443]

\* int(port) on a str of decimal digits.
RECURSIVE ParseInt(_, _)
ParseInt(s, acc) ==
    IF s = << >> THEN acc ELSE ParseInt(Tail(s), (10 * acc) + (Head(s) - 48))

\* host, port = parsed_url.netloc.split(':'), or the netloc without a ':'.
SplitNetloc(netloc) ==
    IF Colon \notin Range(netloc)
    THEN [raise |-> None, host |-> netloc, port |-> << >>]
    ELSE LET parts == Split(netloc, Colon)
         IN  IF Len(parts) # 2
             THEN [raise |-> Some("ValueError"), host |-> << >>, port |-> << >>]
             ELSE [raise |-> None, host |-> parts[1], port |-> parts[2]]

PathAndQuery(parsed_url) ==
    LET path == IF parsed_url.path # << >> THEN parsed_url.path ELSE << Slash >>
    IN  path \o (IF parsed_url.query # << >>
                 THEN << QuestionMark >> \o parsed_url.query
                 ELSE << >>)

DissectAndEscapeUrl(parsed_url) ==
    IF parsed_url.scheme \notin DOMAIN DEFAULT_PORTS
    THEN [raise |-> Some("AssertionError"), value |-> None]
    ELSE LET hp == SplitNetloc(parsed_url.netloc) IN
         IF hp.raise # None THEN [raise |-> hp.raise, value |-> None]
         ELSE IF hp.port # << >> /\ ~(Range(hp.port) \subseteq Digits)
         THEN [raise |-> Some("ValueError"), value |-> None]
         ELSE [raise |-> None,
               value |-> [host |-> IdnaEncode(hp.host),
                          port |-> IF hp.port # << >>
                                   THEN ParseInt(hp.port, 0)
                                   ELSE DEFAULT_PORTS[parsed_url.scheme],
                          path_and_query |-> Quote(PathAndQuery(parsed_url),
                                                   SafeCharacters)]]

(***************************************************************************)
(* URLs to dissect, as urlparse hands them over.                           *)
(***************************************************************************)
Schemes == {"http", "https", "ftp"}

\* 'google.pl', '', '\u4f8b\u5b50.\u6d4b\u8bd5', 'Google.\u4f8b\u5b50', '[::1]'
UrlHosts ==
    { << 103, 111, 111, 103, 108, 101, 46, 112, 108 >>,
      << >>,
      << 20363, 23376, 46, 27979, 35797 >>,
      << 71, 111, 111, 103, 108, 101, 46, 20363, 23376 >>,
      << 91, 58, 58, 49, 93 >> }

\* The port after the host: none, or the text after the ':', which may
\* be empty, with the number it spells.
UrlPorts ==
    { None,
      Some([text |-> << 56, 49 >>, number |-> 81]),
      Some([text |-> << 56, 48, 56, 48 >>, number |-> 8080]),
      Some([text |-> << >>, number |-> 0]) }

\* '', '/test', '/\u9996\u9875', '/\u9996/\u9875', '/a b'
UrlPaths ==
    { << >>,
      << 47, 116, 101, 115, 116 >>,
      << 47, 39318, 39029 >>,
      << 47, 39318, 47, 39029 >>,
      << 47, 97, 32, 98 >> }

\* '', 'a=b&c=d', '\u8f6f\u4ef6=\u5e2e\u52a9&\u8054\u7edc=\u0627\u0644\u0639\u0631\u0628\u064a'
UrlQueries ==
    { << >>,
      << 97, 61, 98, 38, 99, 61, 100 >>,
      << 36719, 20214, 61, 24110, 21161, 38, 32852, 32476, 61, 1575, 1604, 1593, 1585, 1576, 1610 >> }

\* '', 'fragment'
UrlFragments ==
    { << >>,
      << 102, 114, 97, 103, 109, 101, 110, 116 >> }


Netloc(host, port) ==
    host \o (IF port = None THEN << >> ELSE << Colon >> \o Value(port).text)

UrlCalls ==
    { [host |-> h, port |-> p,
       parsed_url |-> [scheme |-> s, netloc |-> Netloc(h, p), path |-> pa,
                       query |-> q, fragment |-> f]] :
        s \in Schemes, h \in UrlHosts, p \in UrlPorts, pa \in UrlPaths, q \in UrlQueries,
        f \in UrlFragments }

UrlInit ==
    /\ NotStarted
    /\ call \in UrlCalls
    /\ ret = None

DissectUrl ==
    /\ ret = None
    /\ ret' = DissectAndEscapeUrl(call.parsed_url)
    /\ UNCHANGED << program_vars, call >>

UrlNext == DissectUrl

UrlSpec == UrlInit /\ [][UrlNext]_vars

\* The URL of the call has one of the schemes the watchdog supports.
Supported == call.parsed_url.scheme \in {"http", "https"}

\* What C24 says of the parts returned for the URL of the call.
C24_Parts ==
    LET u    == call.parsed_url
        v    == ret.value
        path == IF u.path = << >> THEN << Slash >> ELSE u.path
    IN  /\ v.port = IF call.port = None \/ Value(call.port).text = << >>
                    THEN (IF u.scheme = "http" THEN 80 ELSE 443)
                    ELSE Value(call.port).number
        /\ v.path_and_query =
               Quote(path, SafeCharacters)
                   \o (IF u.query = << >> THEN << >>
                       ELSE << QuestionMark >> \o Quote(u.query, SafeCharacters))
        /\ Head(v.path_and_query) = Slash
        /\ 35 \notin Range(v.path_and_query)
        /\ Cardinality({k \in DOMAIN v.path_and_query :
                            v.path_and_query[k] = QuestionMark})
               = IF u.query = << >> THEN 0 ELSE 1

\* C24: for any URL with scheme http or https, dissection returns: without
\* the fragment, with path '/' for an empty path, with port 80 (http) or
\* 443 (https) when none is given and the given port as an integer
\* otherwise, and with the query after the path behind exactly one '?' when
\* there is a query and no '?' when there is none.
C24_Dissection ==
    (ret # None /\ Supported) => (ret.raise = None /\ C24_Parts)

\* The same for the URLs whose host has no ':' in it.
C24_HostWithoutColon ==
    (ret # None /\ Supported /\ Colon \notin Range(call.host))
        => (ret.raise = None /\ C24_Parts)

\* The URL http://[::1]:81/test, with an IPv6 address as host, was handed
\* over and the dissection raised ValueError.
C24_Witness ==
    /\ ret # None
    /\ call.parsed_url.scheme = "http"
    /\ call.parsed_url.netloc = << 91, 58, 58, 49, 93, 58, 56, 49 >>
    /\ call.parsed_url.path = << 47, 116, 101, 115, 116 >>
    /\ ret.raise = Some("ValueError")

\* The bytes of the UTF-8 encoding of a text.
RECURSIVE Bytes(_)
Bytes(s) == IF s = << >> THEN << >> ELSE Utf8(Head(s)) \o Bytes(Tail(s))

HexValue(c) == IF c \in Digits THEN c - 48 ELSE c - 55

\* The bytes a percent-encoded text stands for.
RECURSIVE Unquote(_)
Unquote(s) ==
    IF s = << >> THEN << >>
    ELSE IF Head(s) = Percent /\ Len(s) >= 3
         THEN << (16 * HexValue(s[2])) + HexValue(s[3]) >> \o Unquote(SubSeq(s, 4, Len(s)))
    ELSE << Head(s) >> \o Unquote(Tail(s))

Structure(s) == SelectSeq(s, LAMBDA c : c \in SafeCharacters)

\* C25: in the dissected path and query every character outside the safe
\* set, so every non-ASCII character, is percent-encoded, and '=', '&', '?'
\* and '/' are never escaped: the output is ASCII, has the separators of
\* the input in the same order, and decodes to the input.
C25_Escaping ==
    (ret # None /\ ret.raise = None) =>
        LET given == PathAndQuery(call.parsed_url)
            out   == ret.value.path_and_query
        IN  /\ Range(out) \subseteq 0..127
            /\ Range(out) \subseteq AlwaysSafe \cup SafeCharacters \cup {Percent}
            /\ Structure(out) = Structure(given)
            /\ Unquote(out) = Bytes(given)
            /\ \A k \in DOMAIN out :
                  out[k] = Percent
                      => /\ k + 2 <= Len(out)
                         /\ {out[k + 1], out[k + 2]} \subseteq Digits \cup (65..70)

\* '/\u9996/\u9875?\u8f6f\u4ef6=\u5e2e\u52a9&\u8054\u7edc=\u0627\u0644\u0639\u0631\u0628\u064a' was dissected to
\* /%E9%A6%96/%E9%A1%B5?%E8%BD%AF%E4%BB%B6=%E5%B8%AE%E5%8A%A9&%E8%81%94%E7%BB%9C=%D8%A7%D9%84%D8%B9%D8%B1%D8%A8%D9%8A
C25_Witness ==
    /\ ret # None
    /\ call.parsed_url.path = << 47, 39318, 47, 39029 >>
    /\ call.parsed_url.query = << 36719, 20214, 61, 24110, 21161, 38, 32852, 32476, 61, 1575, 1604, 1593, 1585, 1576, 1610 >>
    /\ ret.raise = None
    /\ ret.value.path_and_query =
           << 47, 37, 69, 57,
              37, 65, 54,
              37, 57, 54, 47,
              37, 69, 57,
              37, 65, 49,
              37, 66, 53, 63,
              37, 69, 56,
              37, 66, 68,
              37, 65, 70,
              37, 69, 52,
              37, 66, 66,
              37, 66, 54, 61,
              37, 69, 53,
              37, 66, 56,
              37, 65, 69,
              37, 69, 53,
              37, 56, 65,
              37, 65, 57, 38,
              37, 69, 56,
              37, 56, 49,
              37, 57, 52,
              37, 69, 55,
              37, 66, 66,
              37, 57, 67, 61,
              37, 68, 56,
              37, 65, 55,
              37, 68, 57,
              37, 56, 52,
              37, 68, 56,
              37, 66, 57,
              37, 68, 56,
              37, 66, 49,
              37, 68, 56,
              37, 65, 56,
              37, 68, 57,
              37, 56, 65 >>

Ascii(s) == Range(s) \subseteq 0..127

\* C26: a host with non-ASCII characters is dissected to its IDNA form, each
\* non-ASCII label becoming an 'xn--' label, a host that is ASCII already
\* is returned unchanged, and so the dissected host is always ASCII.
C26_Host ==
    (ret # None /\ ret.raise = None) =>
        LET given  == Split(call.host, Dot)
            labels == Split(ret.value.host, Dot)
        IN  /\ Ascii(ret.value.host)
            /\ Ascii(call.host) => ret.value.host = call.host
            /\ Len(labels) = Len(given)
            /\ \A k \in DOMAIN given :
                  IF Ascii(given[k]) THEN labels[k] = given[k]
                  ELSE /\ Len(labels[k]) > 4
                       /\ SubSeq(labels[k], 1, 4) = AcePrefix

\* The host '\u4f8b\u5b50.\u6d4b\u8bd5' was dissected to
\* xn--fsqu00a.xn--0zwm56d.
C26_Witness ==
    /\ ret # None
    /\ call.host = << 20363, 23376, 46, 27979, 35797 >>
    /\ ret.raise = None
    /\ ret.value.host =
           << 120, 110, 45, 45, 102, 115, 113, 117, 48, 48, 97, 46, 120, 110, 45, 45, 48, 122, 119, 109, 53, 54, 100 >>

\* A host with an ASCII label in upper case kept that label as it was:
\* 'Google.\u4f8b\u5b50' became Google.xn--fsqu00a.
C26_MixedHost ==
    /\ ret # None
    /\ call.host = << 71, 111, 111, 103, 108, 101, 46, 20363, 23376 >>
    /\ ret.raise = None
    /\ ret.value.host = << 71, 111, 111, 103, 108, 101, 46, 120, 110, 45, 45, 102, 115, 113, 117, 48, 48, 97 >>

\* C27: for every published result exactly one line is logged, at DEBUG
\* if and only if the verdict is MATCH and at INFO for NO_MATCH, HTTP_ERROR
\* and CONNECTION_ERROR: in each sweep a page has as many lines as results
\* stored, at most one, and the line of the stored result has that level.
C27_OneLogLine ==
    \A k \in Slots :
        /\ Len(sweep.logs[k]) = sweep.puts[k]
        /\ sweep.puts[k] <= 1
        /\ sweep.puts[k] = 1 =>
              /\ probe_results[k] # None
              /\ probe_results[k].result = MATCH => sweep.logs[k] = << "DEBUG" >>
              /\ probe_results[k].result \in {NO_MATCH, HTTP_ERROR, CONNECTION_ERROR}
                    => sweep.logs[k] = << "INFO" >>
              /\ probe_results[k].result
                    \in {MATCH, NO_MATCH, HTTP_ERROR, CONNECTION_ERROR}

\* In one sweep a NO_MATCH was logged at INFO for the first page and a
\* MATCH at DEBUG for the second.
C27_Witness ==
    /\ Len(page_configs) = 2
    /\ sweep.puts = << 1, 1 >>
    /\ probe_results[1].result = NO_MATCH
    /\ probe_results[2].result = MATCH
    /\ sweep.logs = << << "INFO" >>, << "DEBUG" >> >>

(***************************************************************************)
(* SettingsManager.  The values read from the requirement file are YAML    *)
(* values: each carries its type, and a str is a sequence of code points.  *)
(***************************************************************************)
DEFAULT_PORT == 80

YamlInt(n)  == [type |-> "int", int |-> n]
YamlStr(s)  == [type |-> "str", str |-> s]
YamlNull    == [type |-> "null"]
YamlList(s) == [type |-> "list", list |-> s]

\* One key of a mapping, or no key when the value is left out.
Item(key, opt) == IF opt = None THEN << >> ELSE key :> Value(opt)

\* int(value), with the exception it may raise.
IntOf(value) ==
    IF value.type = "int" THEN [raise |-> None, value |-> value.int]
    ELSE IF value.type = "str"
         THEN IF value.str # << >> /\ Range(value.str) \subseteq Digits
              THEN [raise |-> None, value |-> ParseInt(value.str, 0)]
              ELSE [raise |-> Some("ValueError"), value |-> 0]
    ELSE [raise |-> Some("TypeError"), value |-> 0]

\* setting_name.replace('-', '_')
InternalSettingName(setting_name) ==
    IF setting_name = "probe-interval" THEN "probe_interval" ELSE setting_name

\* Mutant: a command-line value of 0 counts as not given.
GetOptionalIntegerSetting_ZeroIsUnset(setting_name, default_value, command_line_namespace, requirements) ==
    LET command_line_value == command_line_namespace[InternalSettingName(setting_name)]
    IN  IF command_line_value # None /\ Value(command_line_value) # 0
        THEN [raise |-> None, value |-> Value(command_line_value)]
        ELSE IF setting_name \in DOMAIN requirements
        THEN LET n == IntOf(requirements[setting_name])
             IN  IF n.raise = Some("ValueError")
                 THEN [raise |-> Some("ConfigurationError"), value |-> 0]
                 ELSE n
        ELSE [raise |-> None, value |-> default_value]

\* SettingsManager._get_optional_integer_setting: argparse hands over an int
\* or None; a ValueError of int() becomes a ConfigurationError.
GetOptionalIntegerSetting(setting_name, default_value, command_line_namespace, requirements) ==
    LET command_line_value == command_line_namespace[InternalSettingName(setting_name)]
    IN  IF command_line_value # None
        THEN [raise |-> None, value |-> Value(command_line_value)]
        ELSE IF setting_name \in DOMAIN requirements
        THEN LET n == IntOf(requirements[setting_name])
             IN  IF n.raise = Some("ValueError")
                 THEN [raise |-> Some("ConfigurationError"), value |-> 0]
                 ELSE n
        ELSE [raise |-> None, value |-> default_value]

(***************************************************************************)
(* urlparse, as far as the validation reads its result: the scheme and     *)
(* the user name and password of the network location.                     *)
(***************************************************************************)
SchemeCharacters == Letters \cup Digits \cup {43, Hyphen, Dot}

\* The first place of s that holds one of the characters, or None.
Find(s, characters) ==
    LET places == {k \in DOMAIN s : s[k] \in characters}
    IN  IF places = {} THEN None
        ELSE Some(CHOOSE k \in places : \A j \in places : k <= j)

\* The last place of s that holds the character, or None.
FindLast(s, character) ==
    LET places == {k \in DOMAIN s : s[k] = character}
    IN  IF places = {} THEN None
        ELSE Some(CHOOSE k \in places : \A j \in places : k >= j)

LowerCodePoints(s) ==
    [k \in 1..Len(s) |-> IF s[k] \in 65..90 THEN s[k] + 32 ELSE s[k]]

\* The scheme in lower case and what follows its ':', or no scheme.
UrlScheme(url) ==
    LET colon == Find(url, {Colon})
    IN  IF /\ colon # None
           /\ Value(colon) > 1
           /\ url[1] \in Letters
           /\ \A k \in 1..(Value(colon) - 1) : url[k] \in SchemeCharacters
        THEN [scheme |-> LowerCodePoints(SubSeq(url, 1, Value(colon) - 1)),
              rest   |-> SubSeq(url, Value(colon) + 1, Len(url))]
        ELSE [scheme |-> << >>, rest |-> url]

\* The network location: what follows '//' up to the next '/', '?' or '#'.
UrlNetloc(rest) ==
    IF ~(Len(rest) >= 2 /\ rest[1] = Slash /\ rest[2] = Slash) THEN << >>
    ELSE LET after == SubSeq(rest, 3, Len(rest))
             stop  == Find(after, {Slash, QuestionMark, 35})
         IN  IF stop = None THEN after ELSE SubSeq(after, 1, Value(stop) - 1)

\* What stands before the last '@' of the network location, or None.
UserInfo(netloc) ==
    LET at == FindLast(netloc, 64)
    IN  IF at = None THEN None ELSE Some(SubSeq(netloc, 1, Value(at) - 1))

UserName(userinfo) ==
    IF userinfo = None THEN None
    ELSE LET sep == Find(Value(userinfo), {Colon})
         IN  IF sep = None THEN userinfo
             ELSE Some(SubSeq(Value(userinfo), 1, Value(sep) - 1))

Password(userinfo) ==
    IF userinfo = None THEN None
    ELSE LET sep == Find(Value(userinfo), {Colon})
         IN  IF sep = None THEN None
             ELSE Some(SubSeq(Value(userinfo), Value(sep) + 1, Len(Value(userinfo))))

UrlParse(url) ==
    LET netloc == UrlNetloc(UrlScheme(url).rest)
    IN  [scheme   |-> UrlScheme(url).scheme,
         netloc   |-> netloc,
         username |-> UserName(UserInfo(netloc)),
         password |-> Password(UserInfo(netloc))]

\* 'http', 'https'
SupportedSchemes ==
    { << 104, 116, 116, 112 >>,
      << 104, 116, 116, 112, 115 >> }

(***************************************************************************)
(* SettingsManager._read_and_validate and gather                           *)
(***************************************************************************)
ConfigurationError == [raise |-> Some("ConfigurationError"), warnings |-> << >>]

\* The checks made on one page configuration; a page without patterns
\* passes with a warning.  The name raised for a 'url' that is not a str
\* is not defined anywhere: Python raises NameError.
ValidatePage(page_config) ==
    IF "url" \notin DOMAIN page_config \/ "patterns" \notin DOMAIN page_config
    THEN ConfigurationError
    ELSE IF page_config["url"].type # "str"
    THEN [raise |-> Some("NameError"), warnings |-> << >>]
    ELSE LET parsed_url == UrlParse(page_config["url"].str)
             patterns   == page_config["patterns"]
         IN  IF parsed_url.scheme \notin SupportedSchemes THEN ConfigurationError
             ELSE IF parsed_url.username # None \/ parsed_url.password # None
             THEN ConfigurationError
             ELSE IF patterns.type # "list" THEN ConfigurationError
             ELSE IF \E k \in DOMAIN patterns.list : patterns.list[k].type # "str"
             THEN ConfigurationError
             ELSE [raise |-> None,
                   warnings |-> IF Len(patterns.list) = 0
                                THEN << page_config["url"].str >>
                                ELSE << >>]

\* Mutant: a page without patterns is refused.
RECURSIVE ValidatePages_RefusesNoPatterns(_, _, _)
ValidatePages_RefusesNoPatterns(pages, k, warnings) ==
    IF k > Len(pages) THEN [raise |-> None, warnings |-> warnings]
    ELSE LET v == ValidatePage(pages[k])
         IN  IF v.raise # None THEN v
             ELSE IF v.warnings # << >> THEN ConfigurationError
             ELSE ValidatePages_RefusesNoPatterns(pages, k + 1, warnings \o v.warnings)

\* for page_config in settings['pages'], from page k on.
RECURSIVE ValidatePages(_, _, _)
ValidatePages(pages, k, warnings) ==
    IF k > Len(pages) THEN [raise |-> None, warnings |-> warnings]
    ELSE LET v == ValidatePage(pages[k])
         IN  IF v.raise # None THEN v
             ELSE ValidatePages(pages, k + 1, warnings \o v.warnings)

NoSettings == [raise |-> Some("ConfigurationError"), settings |-> None, warnings |-> << >>]

\* Mutant: the port may be 65535.
PortInRange_Inclusive(port) == 0 < port /\ port <= 65535

\* 0 < settings['port'] < 65535
PortInRange(port) == 0 < port /\ port < 65535

ReadAndValidate(command_line_namespace, requirements) ==
    IF "pages" \notin DOMAIN requirements THEN NoSettings
    ELSE IF requirements["pages"].type # "list" THEN NoSettings
    ELSE IF Len(requirements["pages"].list) = 0 THEN NoSettings
    ELSE LET pages == ValidatePages(requirements["pages"].list, 1, << >>)
             interval ==
                 GetOptionalIntegerSetting("probe-interval", DEFAULT_PROBE_INTERVAL,
                                           command_line_namespace, requirements)
             port ==
                 GetOptionalIntegerSetting("port", DEFAULT_PORT,
                                           command_line_namespace, requirements)
         IN  IF pages.raise # None
             THEN [NoSettings EXCEPT !.raise = pages.raise]
             ELSE IF interval.raise # None
             THEN [NoSettings EXCEPT !.raise = interval.raise]
             ELSE IF interval.value < 0 THEN NoSettings
             ELSE IF port.raise # None
             THEN [NoSettings EXCEPT !.raise = port.raise]
             ELSE IF ~PortInRange(port.value) THEN NoSettings
             ELSE [raise    |-> None,
                   settings |-> Some([pages          |-> requirements["pages"],
                                      probe_interval |-> interval.value,
                                      port           |-> port.value]),
                   warnings |-> pages.warnings]

\* SettingsManager.gather on a new manager: the settings it holds afterwards
\* (None for the empty dict) and the warnings logged.
Gather(command_line_namespace, requirements) ==
    LET r == ReadAndValidate(command_line_namespace, requirements)
    IN  [raise    |-> r.raise,
         settings |-> IF r.raise = None THEN r.settings ELSE None,
         logged   |-> IF r.raise = None THEN r.warnings ELSE << >>]

(***************************************************************************)
(* Command lines and requirement files.  Each page configuration is given  *)
(* with what is wrong with it, if anything.                                *)
(***************************************************************************)
CommandLineValues ==
    { None, Some(0), Some(0 - 1), Some(1), Some(65534), Some(65535) }

\* The value of a key of the file, with the number it spells if any:
\* 0, 7, 65535, '8080', 'abc', null; or no such key.
FileValues ==
    { None,
      Some([yaml |-> YamlInt(0),     valid |-> TRUE,  number |-> 0]),
      Some([yaml |-> YamlInt(0 - 1), valid |-> TRUE,  number |-> 0 - 1]),
      Some([yaml |-> YamlInt(7),     valid |-> TRUE,  number |-> 7]),
      Some([yaml |-> YamlInt(65535), valid |-> TRUE,  number |-> 65535]),
      Some([yaml |-> YamlStr(<< 56, 48, 56, 48 >>), valid |-> TRUE, number |-> 8080]),
      Some([yaml |-> YamlStr(<< 97, 98, 99 >>), valid |-> FALSE, number |-> 0]),
      Some([yaml |-> YamlNull,       valid |-> FALSE, number |-> 0]) }

FOO == YamlStr(<< 102, 111, 111 >>)

Page(url, patterns) == Item("url", url) @@ Item("patterns", patterns)

\* The urls: 'http://google.pl/', 'HTTP://google.pl:81/x', 'https://google.pl/', 'ftp://google.pl/', 'google.pl', 'http://user@google.pl/', 'http://user:pw@google.pl/'
PageConfigs ==
    { [fault |-> "none", warns |-> FALSE,
       config |-> Page(Some(YamlStr(<< 104, 116, 116, 112, 58, 47, 47, 103, 111, 111, 103, 108, 101, 46, 112, 108, 47 >>)), Some(YamlList(<< FOO >>)))],
      [fault |-> "none", warns |-> FALSE,
       config |-> Page(Some(YamlStr(<< 72, 84, 84, 80, 58, 47, 47, 103, 111, 111, 103, 108, 101, 46, 112, 108, 58, 56, 49, 47, 120 >>)), Some(YamlList(<< FOO, FOO >>)))],
      [fault |-> "none", warns |-> TRUE,
       config |-> Page(Some(YamlStr(<< 104, 116, 116, 112, 115, 58, 47, 47, 103, 111, 111, 103, 108, 101, 46, 112, 108, 47 >>)), Some(YamlList(<< >>)))],
      [fault |-> "no url", warns |-> FALSE,
       config |-> Page(None, Some(YamlList(<< FOO >>)))],
      [fault |-> "no patterns", warns |-> FALSE,
       config |-> Page(Some(YamlStr(<< 104, 116, 116, 112, 58, 47, 47, 103, 111, 111, 103, 108, 101, 46, 112, 108, 47 >>)), None)],
      [fault |-> "scheme", warns |-> FALSE,
       config |-> Page(Some(YamlStr(<< 102, 116, 112, 58, 47, 47, 103, 111, 111, 103, 108, 101, 46, 112, 108, 47 >>)), Some(YamlList(<< FOO >>)))],
      [fault |-> "scheme", warns |-> FALSE,
       config |-> Page(Some(YamlStr(<< 103, 111, 111, 103, 108, 101, 46, 112, 108 >>)), Some(YamlList(<< FOO >>)))],
      [fault |-> "username", warns |-> FALSE,
       config |-> Page(Some(YamlStr(<< 104, 116, 116, 112, 58, 47, 47, 117, 115, 101, 114, 64, 103, 111, 111, 103, 108, 101, 46, 112, 108, 47 >>)), Some(YamlList(<< FOO >>)))],
      [fault |-> "password", warns |-> FALSE,
       config |-> Page(Some(YamlStr(<< 104, 116, 116, 112, 58, 47, 47, 117, 115, 101, 114, 58, 112, 119, 64, 103, 111, 111, 103, 108, 101, 46, 112, 108, 47 >>)), Some(YamlList(<< FOO >>)))],
      [fault |-> "patterns not a collection", warns |-> FALSE,
       config |-> Page(Some(YamlStr(<< 104, 116, 116, 112, 58, 47, 47, 103, 111, 111, 103, 108, 101, 46, 112, 108, 47 >>)), Some(FOO))],
      [fault |-> "pattern not a string", warns |-> FALSE,
       config |-> Page(Some(YamlStr(<< 104, 116, 116, 112, 58, 47, 47, 103, 111, 111, 103, 108, 101, 46, 112, 108, 47 >>)), Some(YamlList(<< FOO, YamlInt(5) >>)))],
      [fault |-> "url not a string", warns |-> FALSE,
       config |-> Page(Some(YamlInt(5)), Some(YamlList(<< FOO >>)))] }

Configs(pages) == [k \in 1..Len(pages) |-> pages[k].config]

\* The 'pages' of the file: no such key, a str, the empty list, or a list
\* of page configurations.
PagesValues ==
    { [given |-> << >>, fault |-> "missing", yaml |-> None],
      [given |-> << >>, fault |-> "not a collection", yaml |-> Some(FOO)],
      [given |-> << >>, fault |-> "empty", yaml |-> Some(YamlList(<< >>))] } \cup
    { [given |-> ps, fault |-> "none", yaml |-> Some(YamlList(Configs(ps)))] :
        ps \in UNION { [1..n -> PageConfigs] : n \in 1..MaxConfiguredPages } }

\* Pages without a fault, the second with a warning.
GoodPages ==
    { p \in PagesValues : Len(p.given) = 1 /\ p.given[1].fault = "none" }

Requirements(pages, interval, port) ==
    Item("pages", pages.yaml)
        @@ Item("probe-interval", IF interval = None THEN None
                                  ELSE Some(Value(interval).yaml))
        @@ Item("port", IF port = None THEN None ELSE Some(Value(port).yaml))

\* A call of gather(): the command line and the requirement file, with the
\* parts they were made of.
GatherCallOf(p, ci, fi, cp, fp) ==
    [pages |-> p,
     given |-> [probe_interval |-> [cmd |-> ci, file |-> fi],
                port           |-> [cmd |-> cp, file |-> fp]],
     command_line_namespace |-> [probe_interval |-> ci, port |-> cp],
     requirements |-> Requirements(p, fi, fp)]

\* gather() with every 'pages' and nothing else given, and with each good
\* page and every way of giving the two integer settings.
SettingsCalls ==
    { GatherCallOf(p, None, None, None, None) : p \in PagesValues } \cup
    { GatherCallOf(p, ci, fi, cp, fp) :
        p \in GoodPages, ci \in CommandLineValues, fi \in FileValues,
        cp \in CommandLineValues, fp \in FileValues }

SettingsInit ==
    /\ NotStarted
    /\ call \in SettingsCalls
    /\ ret = None

\* One of the two integer settings is looked up on its own.
GetSetting ==
    /\ ret = None
    /\ \E name \in {"probe-interval", "port"} :
          ret' = [fn   |-> "_get_optional_integer_setting",
                  name |-> name,
                  got  |-> GetOptionalIntegerSetting(
                               name,
                               IF name = "port" THEN DEFAULT_PORT
                                                ELSE DEFAULT_PROBE_INTERVAL,
                               call.command_line_namespace, call.requirements)]
    /\ UNCHANGED << program_vars, call >>

\* gather() runs on a new SettingsManager.
GatherCall ==
    /\ ret = None
    /\ ret' = [fn  |-> "gather",
               got |-> Gather(call.command_line_namespace, call.requirements)]
    /\ UNCHANGED << program_vars, call >>

SettingsNext == GetSetting \/ GatherCall

SettingsSpec == SettingsInit /\ [][SettingsNext]_vars

\* The effective value of a setting by the precedence of its sources, from
\* what the call was made of: None when the file's value spells no number.
Effective(name, default) ==
    LET g == call.given[name]
    IN  IF g.cmd # None THEN g.cmd
        ELSE IF g.file = None THEN Some(default)
        ELSE IF Value(g.file).valid THEN Some(Value(g.file).number)
        ELSE None

\* C28: for probe-interval and for port the effective setting is the
\* command-line value when one is given, the value 0 included, otherwise
\* the value of the requirement file when it has the key, otherwise the
\* default, 300 and 80; looked up on its own and as stored by gather().
C28_Precedence ==
    /\ (ret # None /\ ret.fn = "_get_optional_integer_setting") =>
          LET g == call.given[InternalSettingName(ret.name)]
          IN  /\ g.cmd # None
                    => ret.got = [raise |-> None, value |-> Value(g.cmd)]
              /\ (g.cmd = None /\ g.file # None /\ Value(g.file).valid)
                    => ret.got = [raise |-> None, value |-> Value(g.file).number]
              /\ (g.cmd = None /\ g.file = None)
                    => ret.got = [raise |-> None,
                                  value |-> IF ret.name = "port" THEN 80 ELSE 300]
    /\ (ret # None /\ ret.fn = "gather" /\ ret.got.raise = None) =>
          /\ Some(Value(ret.got.settings).probe_interval)
                 = Effective("probe_interval", 300)
          /\ Some(Value(ret.got.settings).port) = Effective("port", 80)

\* The command line gave a probe interval of 0 and the file one of 7: the
\* setting is 0.
C28_Witness ==
    /\ ret # None
    /\ ret.fn = "_get_optional_integer_setting"
    /\ ret.name = "probe-interval"
    /\ call.given.probe_interval.cmd = Some(0)
    /\ call.given.probe_interval.file # None
    /\ Value(call.given.probe_interval.file).number = 7
    /\ ret.got.value = 0

\* gather() stored the defaults: neither source gave the two settings.
C28_Defaults ==
    /\ ret # None
    /\ ret.fn = "gather"
    /\ call.given.probe_interval = [cmd |-> None, file |-> None]
    /\ call.given.port = [cmd |-> None, file |-> None]
    /\ ret.got.raise = None
    /\ Value(ret.got.settings).probe_interval = 300
    /\ Value(ret.got.settings).port = 80

\* gather() was called with pages that have no fault and with sources that
\* give both integer settings a number.
C29_Case ==
    /\ ret # None
    /\ ret.fn = "gather"
    /\ call.pages \in GoodPages
    /\ Effective("probe_interval", 300) # None
    /\ Effective("port", 80) # None

\* C29: validation accepts the effective probe-interval if and only if it
\* is >= 0 and the effective port if and only if 0 < port < 65535, both
\* bounds excluded; for any other value ConfigurationError is raised and no
\* settings are stored.
C29_Ranges ==
    C29_Case =>
        LET interval == Value(Effective("probe_interval", 300))
            port     == Value(Effective("port", 80))
        IN  /\ (ret.got.raise = None)
                   <=> (interval >= 0 /\ 0 < port /\ port < 65535)
            /\ ret.got.raise = None
                   => ret.got.settings
                          = Some([pages |-> Value(call.pages.yaml),
                                  probe_interval |-> interval, port |-> port])
            /\ ret.got.raise # None
                   => /\ ret.got.raise = Some("ConfigurationError")
                      /\ ret.got.settings = None

\* The port 65535 was refused, with a probe interval of 0 that is accepted.
C29_Witness ==
    /\ C29_Case
    /\ Effective("probe_interval", 300) = Some(0)
    /\ Effective("port", 80) = Some(65535)
    /\ ret.got.raise = Some("ConfigurationError")
    /\ ret.got.settings = None

\* The port 65534 was accepted.
C29_Accepted ==
    /\ C29_Case
    /\ Effective("port", 80) = Some(65534)
    /\ ret.got.raise = None

\* A negative probe interval was refused.
C29_Negative ==
    /\ C29_Case
    /\ Effective("probe_interval", 300) = Some(0 - 1)
    /\ Effective("port", 80) = Some(80)
    /\ ret.got.raise = Some("ConfigurationError")

\* The faults of the 'pages' of the call: of the value itself and of each
\* page configuration.
Faults ==
    {call.pages.fault} \cup {call.pages.given[k].fault : k \in DOMAIN call.pages.given}

\* gather() was called with only 'pages' in the file and nothing on the
\* command line, and every 'url' is a str.
C30_Case ==
    /\ ret # None
    /\ ret.fn = "gather"
    /\ call.given.probe_interval = [cmd |-> None, file |-> None]
    /\ call.given.port = [cmd |-> None, file |-> None]
    /\ "url not a string" \notin Faults

\* C30: validation raises ConfigurationError when 'pages' is missing, is no
\* collection or is empty, when a page lacks 'url' or 'patterns', when the
\* scheme of a url is neither http nor https, when a url has a user name or
\* a password, when 'patterns' is no collection or holds a value that is no
\* string; pages without these faults are accepted, and a page whose list
\* of patterns is empty only adds a warning.
C30_Pages ==
    C30_Case =>
        /\ (Faults \cap {"missing", "not a collection", "empty", "no url",
                         "no patterns", "scheme", "username", "password",
                         "patterns not a collection", "pattern not a string"} # {})
              => /\ ret.got.raise = Some("ConfigurationError")
                 /\ ret.got.settings = None
        /\ Faults = {"none"}
              => /\ ret.got.raise = None
                 /\ ret.got.settings # None
                 /\ Value(ret.got.settings).pages = Value(call.pages.yaml)
                 /\ Len(ret.got.logged)
                        = Cardinality({k \in DOMAIN call.pages.given :
                                           call.pages.given[k].warns})

\* Two pages were accepted, the second without patterns: one warning.
C30_Witness ==
    /\ C30_Case
    /\ Len(call.pages.given) = 2
    /\ ~call.pages.given[1].warns
    /\ call.pages.given[2].warns
    /\ ret.got.raise = None
    /\ Len(ret.got.logged) = 1

\* The second page has a password in its url: ConfigurationError.
C30_Refused ==
    /\ C30_Case
    /\ Len(call.pages.given) = 2
    /\ call.pages.given[1].fault = "none"
    /\ call.pages.given[2].fault = "password"
    /\ ret.got.raise = Some("ConfigurationError")

\* The list the constructor built from the pages of the settings.
C31_Built ==
    (main_pc \notin {"gather_settings", "create_watchdog"} /\ settings # None) =>
        /\ Len(page_configs) = Len(settings.pages)
        /\ \A k \in 1..Len(settings.pages) :
              /\ DOMAIN page_configs[k] = {"url", "regexes"}
              /\ page_configs[k].url = settings.pages[k].url
              /\ Len(page_configs[k].regexes) = Len(settings.pages[k].patterns)
              /\ \A j \in 1..Len(settings.pages[k].patterns) :
                    page_configs[k].regexes[j] = Compile(settings.pages[k].patterns[j])

\* C31: the page configuration list built at construction has one entry per
\* input page in input order, each with the unchanged url and one compiled
\* regex per input pattern in input order, and after construction no step
\* of the watchdog or of the report server changes it.
C31_PageConfigs ==
    /\ [](C31_Built)
    /\ [][main_pc # "create_watchdog" => page_configs' = page_configs]_vars

\* A watchdog over two pages, the first with two patterns, has published a
\* sweep and a report has been read to its end.
C31_Witness ==
    /\ Len(page_configs) = 2
    /\ page_configs[1].regexes = << "foo", "bar" >>
    /\ page_configs[2].regexes = << >>
    /\ published = {1, 2}
    /\ request # None
    /\ request.at = "rows"
    /\ request.k = 3


\* C32: nothing a remote server sends for page i can abort the sweep: for
\* every response, a 200 body that cannot be decoded in the declared or
\* default charset included, the fetch of page i yields a result, so that
\* run_forever is never left by the UnicodeDecodeError of such a body.
C32_ResponseCannotAbort ==
    (pc = "raised" /\ raised.by = "fetch") => raised.exc # "UnicodeDecodeError"

\* In a sweep over two pages the first page answered 200 with a body that
\* is no text in its charset: the UnicodeDecodeError has left run_forever
\* before any slot was written and page 2 is never probed.
C32_Witness ==
    /\ pc = "raised"
    /\ raised = [exc |-> "UnicodeDecodeError", by |-> "fetch"]
    /\ Len(page_configs) = 2
    /\ i = 1
    /\ sweep.gets = << 1, 0 >>
    /\ sweep.puts = << 0, 0 >>

\* A 200 response whose Content-Type declares two charsets does not abort
\* the sweep: the page is reported as a connection error.
C32_CharsetDetectionError ==
    (pc = "yielded" /\ fetched.stage = "body" /\ fetched.exc = "CharsetDetectionError")
        => result.result = CONNECTION_ERROR


\* The authority of the call cut at its first ':' (the whole of it and an
\* empty port when it has none).
C33_Cut ==
    LET netloc == call.parsed_url.netloc
        first  == Find(netloc, {Colon})
    IN  IF first = None
        THEN [host |-> netloc, port |-> << >>]
        ELSE [host |-> SubSeq(netloc, 1, Value(first) - 1),
              port |-> SubSeq(netloc, Value(first) + 1, Len(netloc))]

\* The host and port the dissection returned are those of the cut.
C33_Parts ==
    /\ ret.raise = None
    /\ ret.value.host = IdnaEncode(C33_Cut.host)
    /\ ret.value.port = IF C33_Cut.port = << >>
                        THEN DEFAULT_PORTS[call.parsed_url.scheme]
                        ELSE ParseInt(C33_Cut.port, 0)

\* C33: for any authority that contains one or more ':', dissection takes
\* the text before the first ':' as the host and the text after it as the
\* port; an authority without ':' or with an empty port gets the default
\* port of the scheme.
C33_FirstColon == (ret # None /\ Supported) => C33_Parts

\* The URL https://[::1]:8080, whose authority holds four ':', was handed
\* over and the dissection raised ValueError: no host and no port was taken.
C33_Witness ==
    /\ ret # None
    /\ call.parsed_url.scheme = "https"
    /\ call.parsed_url.netloc = << 91, 58, 58, 49, 93, 58, 56, 48, 56, 48 >>
    /\ call.parsed_url.path = << >>
    /\ C33_Cut = [host |-> << 91 >>, port |-> << 58, 49, 93, 58, 56, 48, 56, 48 >>]
    /\ ret.raise = Some("ValueError")

\* With at most one ':' in the authority the host and port are those of
\* the cut.
C33_AtMostOneColon ==
    (/\ ret # None
     /\ Supported
     /\ Cardinality({k \in DOMAIN call.parsed_url.netloc :
                        call.parsed_url.netloc[k] = Colon}) <= 1)
        => C33_Parts


\* A field cut at its first '=': the key before it and the rest after it,
\* or None for a field without '='.
C34_Cut(text) ==
    LET first == Find(text, {"="})
    IN  IF first = None THEN None
        ELSE Some([key  |-> SubSeq(text, 1, Value(first) - 1),
                   rest |-> SubSeq(text, Value(first) + 1, Len(text))])

\* The fields of the header of the call whose key, cut at the first '=',
\* is 'charset' after trimming and case-folding.
C34_Keyed ==
    {k \in DOMAIN call.fields :
        /\ C34_Cut(call.fields[k].text) # None
        /\ Lower(Strip(Value(C34_Cut(call.fields[k].text)).key)) = CHARSET}

\* C34: charset detection splits each field on its first '=': every field
\* whose text before the first '=' is 'charset' after trimming and
\* case-folding counts as a charset declaration, also when the rest of the
\* field holds further '=', and takes part in the check for more than one
\* declaration: two such fields raise CharsetDetectionError and a single
\* one gives the charset.
C34_FirstEquals ==
    ret # None =>
        /\ Cardinality(C34_Keyed) >= 2
              => ret = [raise |-> Some("CharsetDetectionError"), value |-> None]
        /\ Cardinality(C34_Keyed) = 1
              => ret.raise = None /\ ret.value # None
        /\ Cardinality(C34_Keyed) = 0
              => ret = [raise |-> None, value |-> None]

\* The header ' charset=utf-8;charset=a=b' was handed over: the second
\* field was not counted and the detection returned 'utf-8' without raising.
C34_Witness ==
    /\ ret # None
    /\ Len(call.fields) = 2
    /\ call.fields[1].text = << " ", "c", "h", "a", "r", "s", "e", "t", "=", "u", "t", "f", "-", "8" >>
    /\ call.fields[2].text = << "c", "h", "a", "r", "s", "e", "t", "=", "a", "=", "b" >>
    /\ C34_Keyed = {1, 2}
    /\ ret = [raise |-> None, value |-> Some(<< "u", "t", "f", "-", "8" >>)]

\* The fields with exactly one '=' and the key 'charset' are the ones that
\* count: a field with a further '=' is passed over.
C34_OnlyEquals ==
    Declaring =
        {k \in C34_Keyed : "=" \notin Range(Value(C34_Cut(call.fields[k].text)).rest)}


\* gather() was called with only 'pages' in the file and nothing on the
\* command line, and some page has a 'url' that is no str.
C35_Case ==
    /\ ret # None
    /\ ret.fn = "gather"
    /\ call.given.probe_interval = [cmd |-> None, file |-> None]
    /\ call.given.port = [cmd |-> None, file |-> None]
    /\ "url not a string" \in Faults

\* C35: validation refuses a page whose 'url' is not a string by raising
\* ConfigurationError, like every other invalid page setting (the error
\* main reports as a configuration error), and stores no settings.
C35_UrlNotAString ==
    C35_Case =>
        /\ ret.got.raise = Some("ConfigurationError")
        /\ ret.got.settings = None

\* The only page of the file has a 'url' that is no str: gather() was left
\* by a NameError.
C35_Witness ==
    /\ C35_Case
    /\ Len(call.pages.given) = 1
    /\ call.pages.given[1].fault = "url not a string"
    /\ ret.got.raise = Some("NameError")
    /\ ret.got.settings = None

\* Whatever the other pages are, a page whose 'url' is no str is never
\* accepted: gather() raises ConfigurationError (for a fault met before
\* that page) or NameError, and stores no settings.
C35_NeverAccepted ==
    C35_Case =>
        /\ ret.got.raise \in {Some("ConfigurationError"), Some("NameError")}
        /\ ret.got.settings = None


(***************************************************************************)
(* The url of a page on its way from the requirement file to the probe:    *)
(* _read_and_validate checks it and _fetch_page parses it again and hands  *)
(* it to _dissect_and_escape_url.                                          *)
(***************************************************************************)
\* What follows the network location.
UrlTail(url) ==
    LET rest == UrlScheme(url).rest
    IN  IF Len(rest) >= 2 /\ rest[1] = Slash /\ rest[2] = Slash
        THEN SubSeq(rest, 3 + Len(UrlNetloc(rest)), Len(rest))
        ELSE rest

\* The text before the first of the characters, and the text after it.
Before(s, character) ==
    IF Find(s, {character}) = None THEN s
    ELSE SubSeq(s, 1, Value(Find(s, {character})) - 1)

After(s, character) ==
    IF Find(s, {character}) = None THEN << >>
    ELSE SubSeq(s, Value(Find(s, {character})) + 1, Len(s))

\* The name of a scheme ('' for one the watchdog knows nothing of).
SchemeName(scheme) ==
    CASE scheme = << 104, 116, 116, 112 >>      -> "http"
      [] scheme = << 104, 116, 116, 112, 115 >> -> "https"
      [] scheme = << 102, 116, 112 >>           -> "ftp"
      [] OTHER                                  -> ""

\* parsed_url = urlparse(url), as _fetch_page reads it.
ParsedUrl(url) ==
    [scheme   |-> SchemeName(UrlScheme(url).scheme),
     netloc   |-> UrlNetloc(UrlScheme(url).rest),
     path     |-> Before(Before(UrlTail(url), 35), QuestionMark),
     query    |-> After(Before(UrlTail(url), 35), QuestionMark),
     fragment |-> After(UrlTail(url), 35)]

\* The head of _fetch_page, before its try block: the url is parsed, its
\* scheme asserted and the parsed url dissected.
FetchPageDissect(url) ==
    IF ParsedUrl(url).scheme \notin {"http", "https"}
    THEN [raise |-> Some("AssertionError"), value |-> None]
    ELSE DissectAndEscapeUrl(ParsedUrl(url))

\* The urls of pages: a scheme ('http', 'https', 'HTTP', 'ftp'), a host
\* ('google.pl', '[::1]', '\u4f8b\u5b50.\u6d4b\u8bd5', 'user@google.pl', 'user:pw@google.pl'),
\* a port ('', ':81', ':', ':abc') and what follows ('', '/test', '/a?b=c#f').
PageUrls ==
    LET schemes ==
            { << 104, 116, 116, 112 >>,
              << 104, 116, 116, 112, 115 >>,
              << 72, 84, 84, 80 >>,
              << 102, 116, 112 >> }
        hosts ==
            { << 103, 111, 111, 103, 108, 101, 46, 112, 108 >>,
              << 91, 58, 58, 49, 93 >>,
              << 20363, 23376, 46, 27979, 35797 >>,
              << 117, 115, 101, 114, 64, 103, 111, 111, 103, 108, 101, 46, 112, 108 >>,
              << 117, 115, 101, 114, 58, 112, 119, 64, 103, 111, 111, 103, 108, 101, 46, 112, 108 >> }
        ports ==
            { << >>,
              << 58, 56, 49 >>,
              << 58 >>,
              << 58, 97, 98, 99 >> }
        tails ==
            { << >>,
              << 47, 116, 101, 115, 116 >>,
              << 47, 97, 63, 98, 61, 99, 35, 102 >> }
    IN  { s \o << Colon, Slash, Slash >> \o h \o p \o tl :
            s \in schemes, h \in hosts, p \in ports, tl \in tails }

PageUrlInit ==
    /\ NotStarted
    /\ call \in { [url |-> u] : u \in PageUrls }
    /\ ret = None

\* The settings are read: the page of the url, with one pattern, is checked.
ValidateUrl ==
    /\ ret = None
    /\ ret' = [validated |-> ValidatePage(Page(Some(YamlStr(call.url)),
                                               Some(YamlList(<< FOO >>)))),
               dissected |-> None]
    /\ UNCHANGED << program_vars, call >>

\* The probe fetches the page of a url that passed.
DissectValidated ==
    /\ ret # None
    /\ ret.validated.raise = None
    /\ ret.dissected = None
    /\ ret' = [ret EXCEPT !.dissected = Some(FetchPageDissect(call.url))]
    /\ UNCHANGED << program_vars, call >>

PageUrlNext == ValidateUrl \/ DissectValidated

PageUrlSpec == PageUrlInit /\ [][PageUrlNext]_vars

\* C36: every page url that passes settings validation is dissected by the
\* probe without raising: the scheme assertions hold, the split of the
\* authority into host and port and the conversion of the port succeed.
C36_ValidatedDissects ==
    (ret # None /\ ret.dissected # None) => Value(ret.dissected).raise = None

\* The url 'http://google.pl:abc/test' passed validation and its dissection
\* raised ValueError.
C36_Witness ==
    /\ ret # None
    /\ call.url = << 104, 116, 116, 112, 58, 47, 47, 103, 111, 111, 103, 108, 101, 46, 112, 108, 58, 97, 98, 99, 47, 116, 101, 115, 116 >>
    /\ ret.validated.raise = None
    /\ ret.dissected = Some([raise |-> Some("ValueError"), value |-> None])

\* The scheme assertions hold for every url that passed validation: what
\* its dissection may raise is ValueError.
C36_SchemeAsserted ==
    (ret # None /\ ret.dissected # None) =>
        Value(ret.dissected).raise \in {None, Some("ValueError")}

\* The url 'HTTP://google.pl:81/a?b=c#f' passed validation and was dissected.
C36_Dissected ==
    /\ ret # None
    /\ call.url = << 72, 84, 84, 80, 58, 47, 47, 103, 111, 111, 103, 108, 101, 46, 112, 108, 58, 56, 49, 47, 97, 63, 98, 61, 99, 35, 102 >>
    /\ ret.dissected = Some([raise |-> None,
                             value |-> [host |-> << 103, 111, 111, 103, 108, 101, 46, 112, 108 >>, port |-> 81,
                                        path_and_query |-> << 47, 97, 63, 98, 61, 99 >>]])


(***************************************************************************)
(* The two threads statement by statement.  run_forever (with the          *)
(* generator it iterates) is followed from one statement to the next, so   *)
(* that the report server thread may run between the end of a fetch, the   *)
(* check of the queue and the store; the report is followed from one row   *)
(* to the next.  Each record is stamped with the number of the sweep that  *)
(* made it.  The state is the one main() calls run_forever in.  History:   *)
(* sweep.started and sweep.replaced count the fetches started and the      *)
(* slots replaced since the report server put its exception on the queue,  *)
(* fetched.queued says whether the queue held an exception when the fetch  *)
(* ended, published[k] holds every record stored for page k, request.rows  *)
(* the slots read for the report so far.                                   *)
(***************************************************************************)
\* The record probe() yields in a sweep: the time of the probe is taken to
\* be the number of the sweep.
SweepRecord(number) ==
    [result |-> MATCH, http_status |-> Some(OK), reason |-> Some("OK"),
     last_probed_at |-> number, request_duration |-> Some(0)]

ThreadsInit ==
    /\ \E input \in InputPageConfigs :
          /\ settings = [probe_interval |-> 0, pages |-> input]
          /\ page_configs = CompilePageConfigs(input)
          /\ probe_results = InitialProbeResults(CompilePageConfigs(input))
          /\ published = [k \in 1..Len(input) |-> {}]
    /\ probe_interval = Some(0)
    /\ main_pc = "run_watchdog"
    /\ exit_status = None
    /\ error_log = {}
    /\ sweep = [number |-> 1, started |-> 0, replaced |-> 0]
    /\ exception_queue = << >>
    /\ pc = "next"
    /\ i = 1
    /\ result = None
    /\ fetched = None
    /\ raised = None
    /\ server = "starting"
    /\ server_exc = None
    /\ request = None
    /\ call = None
    /\ ret = None

\* next() on the generator: probe() calls _fetch_page for page i.
StartFetch ==
    /\ Running
    /\ pc = "next"
    /\ pc' = "fetching"
    /\ sweep' = [sweep EXCEPT !.started = IF server_exc # None THEN @ + 1 ELSE @]
    /\ UNCHANGED << probe_interval, page_configs, probe_results, exception_queue, i,
                    result, fetched, raised, published, server, server_exc, request >>
    /\ UNCHANGED << main_vars, pure_vars >>

\* _fetch_page returns and probe() yields the record of page i.
CompleteFetch ==
    /\ Running
    /\ pc = "fetching"
    /\ pc' = "yielded"
    /\ result' = SweepRecord(sweep.number)
    /\ fetched' = [queued |-> exception_queue # << >>]
    /\ UNCHANGED << probe_interval, page_configs, probe_results, exception_queue, i,
                    raised, sweep, published, server, server_exc, request >>
    /\ UNCHANGED << main_vars, pure_vars >>

\* _fetch_page lets an exception through: it leaves probe() and run_forever.
FetchRaises ==
    /\ Running
    /\ pc = "fetching"
    /\ Raise("ValueError", "fetch")
    /\ UNCHANGED << probe_interval, page_configs, probe_results, exception_queue, i,
                    sweep, published, server, server_exc >>
    /\ UNCHANGED << main_vars, pure_vars >>

\* The first statement of the loop body: the queue is checked.
CheckQueue ==
    /\ Running
    /\ pc = "yielded"
    /\ LET q == ProcessAsynchronousExceptions(exception_queue) IN
       /\ exception_queue' = q.queue
       /\ IF q.raise # None
          THEN Raise(Value(q.raise), "relay")
          ELSE /\ pc' = "checked"
               /\ UNCHANGED << result, fetched, raised, request >>
    /\ UNCHANGED << probe_interval, page_configs, probe_results, i, sweep, published,
                    server, server_exc >>
    /\ UNCHANGED << main_vars, pure_vars >>

\* The rest of the loop body: the record is stored in slot i and logged.
Store ==
    /\ Running
    /\ pc = "checked"
    /\ probe_results' = StoreResult(probe_results, i, result)
    /\ published' = [published EXCEPT ![i] = @ \cup {result}]
    /\ sweep' = [sweep EXCEPT !.replaced = IF server_exc # None THEN @ + 1 ELSE @]
    /\ result' = None
    /\ fetched' = None
    /\ i' = i + 1
    /\ pc' = IF i = Len(page_configs) THEN "sweep_end" ELSE "next"
    /\ UNCHANGED << probe_interval, page_configs, exception_queue, raised, server,
                    server_exc, request >>
    /\ UNCHANGED << main_vars, pure_vars >>

\* After the loop the queue is checked once more.
CheckQueueAfterSweep ==
    /\ Running
    /\ pc = "sweep_end"
    /\ LET q == ProcessAsynchronousExceptions(exception_queue) IN
       /\ exception_queue' = q.queue
       /\ IF q.raise # None
          THEN Raise(Value(q.raise), "relay")
          ELSE /\ pc' = "sleeping"
               /\ UNCHANGED << result, fetched, raised, request >>
    /\ UNCHANGED << probe_interval, page_configs, probe_results, i, sweep, published,
                    server, server_exc >>
    /\ UNCHANGED << main_vars, pure_vars >>

\* time.sleep() returns and the next sweep starts with a new generator.
NextSweep ==
    /\ Running
    /\ pc = "sleeping"
    /\ sweep.number < MaxSweeps
    /\ pc' = "next"
    /\ i' = 1
    /\ sweep' = [sweep EXCEPT !.number = @ + 1]
    /\ UNCHANGED << probe_interval, page_configs, probe_results, exception_queue,
                    result, fetched, raised, published, server, server_exc, request >>
    /\ UNCHANGED << main_vars, pure_vars >>

\* do_GET for the report path: generate_report is handed the two lists.
BeginReport ==
    /\ Running
    /\ server = "serving"
    /\ request = None
    /\ request' = [k |-> 1, rows |-> << >>]
    /\ UNCHANGED << probe_interval, page_configs, probe_results, exception_queue, pc, i,
                    result, fetched, raised, sweep, published, server, server_exc >>
    /\ UNCHANGED << main_vars, pure_vars >>

\* One iteration of generate_report's loop: slot k is read as it is now.
ReadReportRow ==
    /\ Running
    /\ request # None
    /\ request.k <= Len(page_configs)
    /\ request' = [k    |-> request.k + 1,
                   rows |-> Append(request.rows, ReadSlot(probe_results, request.k))]
    /\ UNCHANGED << probe_interval, page_configs, probe_results, exception_queue, pc, i,
                    result, fetched, raised, sweep, published, server, server_exc >>
    /\ UNCHANGED << main_vars, pure_vars >>

\* The report is written and the server waits for the next request.
EndReport ==
    /\ Running
    /\ request # None
    /\ request.k > Len(page_configs)
    /\ request' = None
    /\ UNCHANGED << probe_interval, page_configs, probe_results, exception_queue, pc, i,
                    result, fetched, raised, sweep, published, server, server_exc >>
    /\ UNCHANGED << main_vars, pure_vars >>

ThreadsNext ==
    \/ StartFetch
    \/ CompleteFetch
    \/ FetchRaises
    \/ CheckQueue
    \/ Store
    \/ CheckQueueAfterSweep
    \/ NextSweep
    \/ ServerBind
    \/ ServerFail
    \/ BeginReport
    \/ ReadReportRow
    \/ EndReport

ThreadsSpec == ThreadsInit /\ [][ThreadsNext]_vars


SweepOf(row) == IF row = None THEN 0 ELSE row.last_probed_at

\* C38: in a report generated while the scheduler is running each row shows
\* the value its slot holds at the instant the row is read, between the
\* start and the end of the request: the empty placeholder or a record
\* published for that same page; the rows are read slot by slot from the
\* live table, and for rows a < b of one report the sweep that produced
\* row b is never more than one sweep older than the sweep that produced
\* row a.
C38_ReportRows ==
    /\ [][ (request # None /\ request' # None /\ request'.k # request.k)
              => /\ request'.k = request.k + 1
                 /\ request'.rows = Append(request.rows, probe_results[request.k]) ]_vars
    /\ [](request # None =>
             \A k \in DOMAIN request.rows :
                 request.rows[k] = None \/ request.rows[k] \in published[k])
    /\ [](request # None =>
             \A a, b \in DOMAIN request.rows :
                 a < b => SweepOf(request.rows[b]) >= SweepOf(request.rows[a]) - 1)

\* A report read row 1 after the second sweep had replaced slot 1 and row 2
\* before it replaced slot 2: row 2 is one sweep older than row 1.
C38_Witness ==
    /\ request # None
    /\ request.k = 3
    /\ request.rows = << SweepRecord(2), SweepRecord(1) >>
    /\ pc = "checked"
    /\ i = 2
    /\ sweep.number = 2

\* No snapshot is taken: a report read row 1 during the first sweep and
\* row 2 during the third, two sweeps newer.
C38_NoSnapshot ==
    /\ request # None
    /\ request.rows = << SweepRecord(1), SweepRecord(3) >>
    /\ sweep.number = 3
====
